---------------------------- MODULE Spec2Model ----------------------------
(***************************************************************************)
(* Scoring and ranking engine of stock_trading (screener.py).              *)
(*                                                                         *)
(* Python floats are modelled as exact rationals [n |-> num, d |-> den]    *)
(* with d > 0 in lowest terms; a possibly-missing float (NaN / None) is a  *)
(* sequence of length 0 (missing) or 1 (the value).  Series positions are  *)
(* the 0-based positions of the Python code; a series is a TLA+ sequence,  *)
(* so position i is element i + 1.                                         *)
(***************************************************************************)
EXTENDS Integers, Sequences, FiniteSets, TLC

VARIABLES pc, args, locals, ret

vars == <<pc, args, locals, ret>>

----------------------------------------------------------------------------
(* Exact arithmetic standing for float arithmetic *)

Abs(x) == IF x < 0 THEN -x ELSE x

RECURSIVE Gcd(_, _)
Gcd(a, b) == IF b = 0 THEN a ELSE Gcd(b, a % b)

Q(num, den) ==
    LET s == IF den < 0 THEN -1 ELSE 1
        g == Gcd(Abs(num), Abs(den))
    IN [n |-> (s * num) \div g, d |-> (s * den) \div g]

I(k) == [n |-> k, d |-> 1]

RAdd(a, b) == Q(a.n * b.d + b.n * a.d, a.d * b.d)
RSub(a, b) == Q(a.n * b.d - b.n * a.d, a.d * b.d)
RMul(a, b) == Q(a.n * b.n, a.d * b.d)
RDiv(a, b) == Q(a.n * b.d, a.d * b.n)
RLt(a, b) == a.n * b.d < b.n * a.d
RLe(a, b) == a.n * b.d <= b.n * a.d
RAbs(a) == [n |-> Abs(a.n), d |-> a.d]
RMin(a, b) == IF RLt(b, a) THEN b ELSE a
RMax(a, b) == IF RLt(a, b) THEN b ELSE a

NaN == << >>
Num(r) == <<r>>
isna(v) == v = NaN
Val(v) == v[1]

----------------------------------------------------------------------------
(* Module constants of screener.py *)

DEFAULT_WEIGHTS == [technical |-> Q(6, 10), fundamental |-> Q(4, 10)]

TECHNICAL_WEIGHTS_all_weighted ==
    [rsi |-> Q(20, 100), macd |-> Q(20, 100), ma_crossover |-> Q(20, 100),
     bbands |-> Q(20, 100), momentum |-> Q(20, 100)]

TECHNICAL_WEIGHTS ==
    [rsi |-> Q(20, 100), macd |-> I(0), ma_crossover |-> Q(30, 100),
     bbands |-> I(0), momentum |-> Q(50, 100)]

----------------------------------------------------------------------------
(* The per-signal scorers *)

score_rsi_high(rsi_value) ==
    IF isna(rsi_value) THEN I(0)
    ELSE IF RLt(Val(rsi_value), I(30)) THEN I(2)
    ELSE IF RLt(Val(rsi_value), I(45)) THEN Q(1, 2)
    ELSE IF RLe(Val(rsi_value), I(55)) THEN I(0)
    ELSE IF RLe(Val(rsi_value), I(70)) THEN Q(-1, 2)
    ELSE I(-1)

score_rsi_inclusive(rsi_value) ==
    IF isna(rsi_value) THEN I(0)
    ELSE IF RLe(Val(rsi_value), I(30)) THEN I(1)
    ELSE IF RLe(Val(rsi_value), I(45)) THEN Q(1, 2)
    ELSE IF RLe(Val(rsi_value), I(55)) THEN I(0)
    ELSE IF RLe(Val(rsi_value), I(70)) THEN Q(-1, 2)
    ELSE I(-1)

score_rsi(rsi_value) ==
    IF isna(rsi_value) THEN I(0)
    ELSE IF RLt(Val(rsi_value), I(30)) THEN I(1)
    ELSE IF RLt(Val(rsi_value), I(45)) THEN Q(1, 2)
    ELSE IF RLe(Val(rsi_value), I(55)) THEN I(0)
    ELSE IF RLe(Val(rsi_value), I(70)) THEN Q(-1, 2)
    ELSE I(-1)

score_macd_strict_cross(macd_val, signal_val, hist_val, prev_hist_val) ==
    IF isna(macd_val) \/ isna(signal_val) \/ isna(hist_val) THEN I(0)
    ELSE LET prev == IF isna(prev_hist_val) THEN I(0) ELSE Val(prev_hist_val)
             hist == Val(hist_val)
         IN IF RLt(prev, I(0)) /\ RLt(I(0), hist) THEN I(1)
            ELSE IF RLt(I(0), prev) /\ RLt(hist, I(0)) THEN I(-1)
            ELSE IF RLt(I(0), hist) /\ RLt(prev, hist) THEN Q(1, 2)
            ELSE IF RLt(hist, I(0)) /\ RLt(hist, prev) THEN Q(-1, 2)
            ELSE I(0)

score_macd(macd_val, signal_val, hist_val, prev_hist_val) ==
    IF isna(macd_val) \/ isna(signal_val) \/ isna(hist_val) THEN I(0)
    ELSE LET prev == IF isna(prev_hist_val) THEN I(0) ELSE Val(prev_hist_val)
             hist == Val(hist_val)
         IN IF RLe(prev, I(0)) /\ RLt(I(0), hist) THEN I(1)
            ELSE IF RLe(I(0), prev) /\ RLt(hist, I(0)) THEN I(-1)
            ELSE IF RLt(I(0), hist) /\ RLt(prev, hist) THEN Q(1, 2)
            ELSE IF RLt(hist, I(0)) /\ RLt(hist, prev) THEN Q(-1, 2)
            ELSE I(0)

score_ma_crossover_at_or_above(price, sma50, sma200) ==
    IF isna(price) \/ isna(sma50) \/ isna(sma200) THEN I(0)
    ELSE IF RLt(Val(sma200), Val(sma50))
         THEN (IF RLe(Val(sma50), Val(price)) THEN I(1) ELSE Q(-1, 4))
         ELSE (IF RLe(Val(sma50), Val(price)) THEN Q(1, 2) ELSE I(-1))

score_ma_crossover(price, sma50, sma200) ==
    IF isna(price) \/ isna(sma50) \/ isna(sma200) THEN I(0)
    ELSE IF RLt(Val(sma200), Val(sma50))
         THEN (IF RLt(Val(sma50), Val(price)) THEN I(1) ELSE Q(-1, 4))
         ELSE (IF RLt(Val(sma50), Val(price)) THEN Q(1, 2) ELSE I(-1))

score_bbands_open_brackets(price, bb_lower, bb_mid, bb_upper) ==
    IF isna(price) \/ isna(bb_lower) \/ isna(bb_mid) \/ isna(bb_upper) THEN I(0)
    ELSE IF Val(bb_upper) = Val(bb_lower) THEN I(0)
    ELSE LET position == RDiv(RSub(Val(price), Val(bb_lower)),
                              RSub(Val(bb_upper), Val(bb_lower)))
         IN IF RLt(position, I(0)) THEN I(1)
            ELSE IF RLt(position, Q(2, 10)) THEN Q(1, 2)
            ELSE IF RLt(position, Q(8, 10)) THEN I(0)
            ELSE IF RLt(position, I(1)) THEN Q(-1, 2)
            ELSE I(-1)

score_bbands(price, bb_lower, bb_mid, bb_upper) ==
    IF isna(price) \/ isna(bb_lower) \/ isna(bb_mid) \/ isna(bb_upper) THEN I(0)
    ELSE IF Val(bb_upper) = Val(bb_lower) THEN I(0)
    ELSE LET position == RDiv(RSub(Val(price), Val(bb_lower)),
                              RSub(Val(bb_upper), Val(bb_lower)))
         IN IF RLe(position, I(0)) THEN I(1)
            ELSE IF RLe(position, Q(2, 10)) THEN Q(1, 2)
            ELSE IF RLe(position, Q(8, 10)) THEN I(0)
            ELSE IF RLt(position, I(1)) THEN Q(-1, 2)
            ELSE I(-1)

----------------------------------------------------------------------------
(* Swing detection and the momentum score.  highs and lows are sequences   *)
(* of integer prices (ticks) of equal length.                              *)

(* highs.iloc[i] == highs.iloc[i - window:i + window + 1].max(): the bar at *)
(* position i is no lower than any bar of its window                       *)
is_swing_high_strict(highs, i, window) ==
    \A k \in (i - window)..(i + window) : k # i => highs[k + 1] < highs[i + 1]

is_swing_high(highs, i, window) ==
    \A k \in (i - window)..(i + window) : highs[k + 1] <= highs[i + 1]

is_swing_low_strict(lows, i, window) ==
    \A k \in (i - window)..(i + window) : k # i => lows[i + 1] < lows[k + 1]

is_swing_low(lows, i, window) ==
    \A k \in (i - window)..(i + window) : lows[i + 1] <= lows[k + 1]

(* The loop over range(window, n - window), restricted to the positions    *)
(* lo <= i < hi: the points it appends, in increasing order of position.   *)
(* The range is split in halves to keep the recursion shallow.             *)
RECURSIVE swing_highs_in(_, _, _, _)
swing_highs_in(highs, window, lo, hi) ==
    IF lo >= hi THEN << >>
    ELSE IF hi = lo + 1
    THEN (IF is_swing_high(highs, lo, window) THEN <<(<<lo, highs[lo + 1]>>)>> ELSE << >>)
    ELSE LET mid == (lo + hi) \div 2
         IN swing_highs_in(highs, window, lo, mid) \o swing_highs_in(highs, window, mid, hi)

RECURSIVE swing_lows_in(_, _, _, _)
swing_lows_in(lows, window, lo, hi) ==
    IF lo >= hi THEN << >>
    ELSE IF hi = lo + 1
    THEN (IF is_swing_low(lows, lo, window) THEN <<(<<lo, lows[lo + 1]>>)>> ELSE << >>)
    ELSE LET mid == (lo + hi) \div 2
         IN swing_lows_in(lows, window, lo, mid) \o swing_lows_in(lows, window, mid, hi)

detect_swings(highs, lows, window) ==
    LET n == Len(highs)
    IN [swing_highs |-> swing_highs_in(highs, window, window, n - window),
        swing_lows |-> swing_lows_in(lows, window, window, n - window)]

(* s[-k:] of Python *)
LastK(s, k) == IF Len(s) <= k THEN s ELSE SubSeq(s, Len(s) - k + 1, Len(s))

CountUpOrEqual(pts) == Cardinality({i \in 2..Len(pts) : pts[i][2] >= pts[i - 1][2]})

CountUp(pts) == Cardinality({i \in 2..Len(pts) : pts[i][2] > pts[i - 1][2]})
CountDown(pts) == Cardinality({i \in 2..Len(pts) : pts[i][2] < pts[i - 1][2]})


momentum_ungated(swing_highs, swing_lows, n_swings) ==
    LET min_points == n_swings + 1
    IN IF Len(swing_highs) < min_points /\ Len(swing_lows) < min_points THEN I(0)
       ELSE LET recent_highs == LastK(swing_highs, min_points)
                recent_lows == LastK(swing_lows, min_points)
                net == (CountUp(recent_highs) + CountUp(recent_lows))
                       - (CountDown(recent_lows) + CountDown(recent_highs))
            IN RMax(I(-1), RMin(I(1), Q(net, 2 * n_swings)))

momentum_both_required(swing_highs, swing_lows, n_swings) ==
    LET min_points == n_swings + 1
    IN IF Len(swing_highs) < min_points \/ Len(swing_lows) < min_points THEN I(0)
       ELSE momentum_ungated(swing_highs, swing_lows, n_swings)

(* The body of _score_momentum after swing detection (lines 134-166) *)
momentum_from_swings(swing_highs, swing_lows, n_swings) ==
    LET min_points == n_swings + 1
    IN IF Len(swing_highs) < min_points /\ Len(swing_lows) < min_points THEN I(0)
       ELSE LET recent_highs == LastK(swing_highs, min_points)
                recent_lows == LastK(swing_lows, min_points)
                hh_count == IF Len(swing_highs) >= min_points THEN CountUp(recent_highs) ELSE 0
                lh_count == IF Len(swing_highs) >= min_points THEN CountDown(recent_highs) ELSE 0
                hl_count == IF Len(swing_lows) >= min_points THEN CountUp(recent_lows) ELSE 0
                ll_count == IF Len(swing_lows) >= min_points THEN CountDown(recent_lows) ELSE 0
                net == (hh_count + hl_count) - (ll_count + lh_count)
                max_net == 2 * n_swings
            IN IF max_net > 0
               THEN RMax(I(-1), RMin(I(1), Q(net, max_net)))
               ELSE I(0)

score_momentum(highs, lows, window, n_swings) ==
    LET sw == detect_swings(highs, lows, window)
    IN momentum_from_swings(sw.swing_highs, sw.swing_lows, n_swings)

----------------------------------------------------------------------------
(* The technical score aggregator.  A price frame df is None or a frame    *)
(* with the columns High, Low and Close.  The pandas_ta indicators other   *)
(* than the simple moving average are library computations whose latest    *)
(* readings are given as the record ta; a reading the library cannot       *)
(* compute (a None result or a NaN cell) is NaN.                           *)

None == << >>
Some(x) == <<x>>

MIN_BARS == 26
DefaultWindow == 5
DefaultNSwings == 4

RECURSIVE SumSeq(_, _, _)
SumSeq(s, lo, hi) ==
    IF lo > hi THEN 0
    ELSE IF lo = hi THEN s[lo]
    ELSE LET mid == (lo + hi) \div 2
         IN SumSeq(s, lo, mid) + SumSeq(s, mid + 1, hi)

(* ta.sma(close, length) read at the last bar *)
ta_sma(close, length) ==
    IF Len(close) < length THEN NaN
    ELSE Num(Q(SumSeq(close, Len(close) - length + 1, Len(close)), length))

weighted_sum(rsi_score, macd_score, ma_score, bb_score, mom_score) ==
    RAdd(RAdd(RAdd(RAdd(RMul(TECHNICAL_WEIGHTS.rsi, rsi_score),
                        RMul(TECHNICAL_WEIGHTS.macd, macd_score)),
                   RMul(TECHNICAL_WEIGHTS.ma_crossover, ma_score)),
              RMul(TECHNICAL_WEIGHTS.bbands, bb_score)),
         RMul(TECHNICAL_WEIGHTS.momentum, mom_score))

normalize_unshifted(raw) == RDiv(raw, I(2))

normalize(raw) == RDiv(RAdd(raw, I(1)), I(2))

too_short_inclusive(df) == df = None \/ Len(Val(df).Close) <= MIN_BARS

(* df is None or len(df) < 26 *)
too_short(df) == df = None \/ Len(Val(df).Close) < MIN_BARS

compute_technical_score(df, ta) ==
    IF too_short(df) THEN None
    ELSE LET f == Val(df)
             close == f.Close
             price == Num(I(close[Len(close)]))
             sma50_val == ta_sma(close, 50)
             sma200_val == ta_sma(close, 200)
             rsi_score == score_rsi(ta.rsi)
             macd_score == score_macd(ta.macd, ta.signal, ta.hist, ta.prev_hist)
             ma_score == score_ma_crossover(price, sma50_val, sma200_val)
             bb_score == score_bbands(price, ta.bb_lower, ta.bb_mid, ta.bb_upper)
             mom_score == score_momentum(f.High, f.Low, DefaultWindow, DefaultNSwings)
             raw == weighted_sum(rsi_score, macd_score, ma_score, bb_score, mom_score)
         IN Some([price |-> price,
                  rsi_value |-> ta.rsi,
                  rsi_score |-> rsi_score,
                  macd_score |-> macd_score,
                  ma_crossover_score |-> ma_score,
                  bbands_score |-> bb_score,
                  momentum_score |-> mom_score,
                  technical_score |-> normalize(raw)])

----------------------------------------------------------------------------
(* The fundamental score aggregator.  A table is a record with the set of  *)
(* its optional columns (price, target_median) and the sequence of its     *)
(* rows; a cell is a number or missing (None and NaN alike, which is what  *)
(* pd.to_numeric leaves of a numeric column).  A row carries a field for   *)
(* an absent column too, which is then missing and never read.             *)

Column(rows, name) == SubSeq([k \in 1..Len(rows) |-> rows[k][name]], 1, Len(rows))

NonMissing(col) == {j \in 1..Len(col) : ~isna(col[j])}

(* Series.rank(pct=True, na_option="keep") with the default method        *)
(* "average": tied values share the mean of the ranks they span.           *)
rank_pct_max(col) ==
    SubSeq([k \in 1..Len(col) |->
        IF isna(col[k]) THEN NaN
        ELSE Num(Q(Cardinality({j \in NonMissing(col) : RLe(Val(col[j]), Val(col[k]))}),
                   Cardinality(NonMissing(col))))], 1, Len(col))

rank_pct_all_rows(col) ==
    SubSeq([k \in 1..Len(col) |->
        IF isna(col[k]) THEN NaN
        ELSE LET less == Cardinality({j \in NonMissing(col) : RLt(Val(col[j]), Val(col[k]))})
                 equal == Cardinality({j \in NonMissing(col) : Val(col[j]) = Val(col[k])})
             IN Num(Q(2 * less + equal + 1, 2 * Len(col)))], 1, Len(col))

rank_pct(col) ==
    SubSeq([k \in 1..Len(col) |->
        IF isna(col[k]) THEN NaN
        ELSE LET less == Cardinality({j \in NonMissing(col) : RLt(Val(col[j]), Val(col[k]))})
                 equal == Cardinality({j \in NonMissing(col) : Val(col[j]) = Val(col[k])})
             IN Num(Q(2 * less + equal + 1, 2 * Cardinality(NonMissing(col))))], 1, Len(col))

fillna_zero(col, r) == SubSeq([k \in 1..Len(col) |-> IF isna(col[k]) THEN I(0) ELSE Val(col[k])], 1, Len(col))

fillna(col, r) == SubSeq([k \in 1..Len(col) |-> IF isna(col[k]) THEN r ELSE Val(col[k])], 1, Len(col))

one_minus(col) ==
    SubSeq([k \in 1..Len(col) |-> IF isna(col[k]) THEN NaN ELSE Num(RSub(I(1), Val(col[k])))], 1, Len(col))

(* df.loc[df[c] <= 0, c] = np.nan *)
blank_non_positive(col) ==
    SubSeq([k \in 1..Len(col) |->
        IF ~isna(col[k]) /\ RLe(Val(col[k]), I(0)) THEN NaN ELSE col[k]], 1, Len(col))

pe_column_fallback(rows) ==
    SubSeq([k \in 1..Len(rows) |->
        IF ~isna(rows[k].forward_pe) /\ RLt(I(0), Val(rows[k].forward_pe))
        THEN rows[k].forward_pe
        ELSE IF ~isna(rows[k].trailing_pe) /\ RLt(I(0), Val(rows[k].trailing_pe))
        THEN rows[k].trailing_pe
        ELSE NaN], 1, Len(rows))

pe_column(rows) ==
    blank_non_positive(
        SubSeq([k \in 1..Len(rows) |->
            IF isna(rows[k].forward_pe) THEN rows[k].trailing_pe ELSE rows[k].forward_pe],
            1, Len(rows)))

div_capped(rows) ==
    SubSeq([k \in 1..Len(rows) |->
        IF isna(rows[k].dividend_yield) THEN NaN
        ELSE Num(RMin(Val(rows[k].dividend_yield), Q(10, 100)))], 1, Len(rows))

beta_distance(rows) ==
    SubSeq([k \in 1..Len(rows) |->
        IF isna(rows[k].beta) THEN NaN ELSE Num(RAbs(RSub(Val(rows[k].beta), I(1))))], 1, Len(rows))

has_upside_columns(t) == "price" \in t.cols /\ "target_median" \in t.cols

target_upside_column_inverted(t, price) ==
    SubSeq([k \in 1..Len(t.rows) |->
        IF ~has_upside_columns(t) THEN NaN
        ELSE IF isna(t.rows[k].target_median) \/ isna(price[k]) THEN NaN
        ELSE Num(RDiv(RSub(Val(price[k]), Val(t.rows[k].target_median)), Val(price[k])))], 1, Len(t.rows))

target_upside_column(t, price) ==
    SubSeq([k \in 1..Len(t.rows) |->
        IF ~has_upside_columns(t) THEN NaN
        ELSE IF isna(t.rows[k].target_median) \/ isna(price[k]) THEN NaN
        ELSE Num(RDiv(RSub(Val(t.rows[k].target_median), Val(price[k])), Val(price[k])))], 1, Len(t.rows))

combine_beta_heavy(pe_s, div_s, beta_s, cap_s, up_s) ==
    RAdd(RAdd(RAdd(RAdd(RMul(Q(25, 100), pe_s), RMul(Q(20, 100), div_s)),
                   RMul(Q(25, 100), beta_s)),
              RMul(Q(25, 100), cap_s)),
         RMul(Q(15, 100), up_s))

(* lines 290-296 *)
combine(pe_s, div_s, beta_s, cap_s, up_s) ==
    RAdd(RAdd(RAdd(RAdd(RMul(Q(25, 100), pe_s), RMul(Q(20, 100), div_s)),
                   RMul(Q(15, 100), beta_s)),
              RMul(Q(25, 100), cap_s)),
         RMul(Q(15, 100), up_s))

compute_fundamental_scores(t) ==
    LET rows == t.rows
        pe == pe_column(rows)
        pe_score == fillna(one_minus(rank_pct(pe)), I(0))
        dividend_score == fillna(rank_pct(div_capped(rows)), I(0))
        beta_score == fillna(one_minus(rank_pct(beta_distance(rows))), Q(1, 2))
        market_cap_score == fillna(rank_pct(Column(rows, "market_cap")), I(0))
        price == IF has_upside_columns(t)
                 THEN blank_non_positive(Column(rows, "price"))
                 ELSE Column(rows, "price")
        target_upside == target_upside_column(t, price)
        target_upside_score ==
            IF has_upside_columns(t) THEN fillna(rank_pct(target_upside), I(0))
            ELSE [k \in 1..Len(rows) |-> I(0)]
    IN [cols |-> t.cols,
        rows |-> [k \in 1..Len(rows) |->
            [ticker |-> rows[k].ticker,
             trailing_pe |-> rows[k].trailing_pe,
             forward_pe |-> rows[k].forward_pe,
             dividend_yield |-> rows[k].dividend_yield,
             beta |-> rows[k].beta,
             market_cap |-> rows[k].market_cap,
             target_median |-> rows[k].target_median,
             price |-> price[k],
             pe |-> pe[k],
             pe_score |-> pe_score[k],
             dividend_score |-> dividend_score[k],
             beta_score |-> beta_score[k],
             market_cap_score |-> market_cap_score[k],
             target_upside |-> target_upside[k],
             target_upside_score |-> target_upside_score[k],
             fundamental_score |-> combine(pe_score[k], dividend_score[k], beta_score[k],
                                           market_cap_score[k], target_upside_score[k])]]]

(* Objects.  A call works on a heap of two frames: the caller's object    *)
(* fundamentals_df and the callee's local df.  copy() makes df a new       *)
(* object with the caller's content; every later assignment of the         *)
(* function (the numeric coercion, the blanked prices, the added columns)  *)
(* writes to the object df refers to.                                      *)
NoObject == << >>

DataFrame_alias(heap, ref) == [ref |-> ref, heap |-> heap]

(* fundamentals_df.copy(): deep by default *)
DataFrame_copy(heap, ref) == [ref |-> "df", heap |-> [heap EXCEPT !.df = heap[ref]]]

(* the heap when compute_fundamental_scores returns, and the object it     *)
(* returns                                                                 *)
fundamental_heap(t) ==
    LET heap0 == [fundamentals_df |-> t, df |-> NoObject]
        copied == DataFrame_copy(heap0, "fundamentals_df")
        written == [copied.heap EXCEPT ![copied.ref] = compute_fundamental_scores(t)]
    IN [heap |-> written, returned |-> copied.ref]

(* compute_technical_score reads df["Close"], df["High"] and df["Low"] and *)
(* assigns to no column of df: the caller's frame after the call           *)
technical_heap(df) == [df |-> df]

----------------------------------------------------------------------------
(* The universe scorer.  The database is a record conn of its two tables:  *)
(* tickers, the sequence of the fundamentals rows in the order the SELECT  *)
(* returns them, and daily_prices, one entry per ticker that has bars, in  *)
(* ascending ticker order, with the ticker's bars in ascending date order  *)
(* as a frame and the age in days of its latest bar.  Bars are one day     *)
(* apart.  The tickers table has no target columns.                        *)

query_all_fundamentals(conn) == conn.tickers

(* the columns that query selects *)
fundamentals_columns ==
    {"ticker", "name", "sector", "industry", "market_cap", "trailing_pe",
     "forward_pe", "dividend_yield", "beta"}

(* WHERE date >= cutoff: the number of bars no older than lookback_days *)
bars_in_window(h, lookback_days) ==
    LET n == Len(h.df.Close)
        m == lookback_days - h.last_age + 1
    IN IF m <= 0 THEN 0 ELSE IF m > n THEN n ELSE m

last_bars(df, m) ==
    LET n == Len(df.Close)
    IN [High |-> SubSeq(df.High, n - m + 1, n),
        Low |-> SubSeq(df.Low, n - m + 1, n),
        Close |-> SubSeq(df.Close, n - m + 1, n)]

(* ORDER BY ticker, date, then groupby on the ticker *)
query_recent_prices(conn, lookback_days) ==
    LET groups == [k \in 1..Len(conn.daily_prices) |->
                      [ticker |-> conn.daily_prices[k].ticker,
                       df |-> last_bars(conn.daily_prices[k].df,
                                        bars_in_window(conn.daily_prices[k], lookback_days))]]
    IN SelectSeq(groups, LAMBDA g : Len(g.df.Close) > 0)

raw_weights(weights) ==
    LET w == IF weights = None THEN DEFAULT_WEIGHTS ELSE Val(weights)
    IN [w_tech |-> w.technical, w_fund |-> w.fundamental]

(* lines 308-313; the caller has excluded a zero total, which raises *)
normalized_weights(weights) ==
    LET w == IF weights = None THEN DEFAULT_WEIGHTS ELSE Val(weights)
        total_w == RAdd(w.technical, w.fundamental)
    IN [w_tech |-> RDiv(w.technical, total_w),
        w_fund |-> RDiv(w.fundamental, total_w)]

zero_total(weights) ==
    LET w == IF weights = None THEN DEFAULT_WEIGHTS ELSE Val(weights)
    IN RAdd(w.technical, w.fundamental) = I(0)

(* lines 338-352: one result per group that compute_technical_score scores *)
tech_results(price_groups, ta) ==
    LET scored == [k \in 1..Len(price_groups) |->
                      [ticker |-> price_groups[k].ticker,
                       result |-> compute_technical_score(Some(price_groups[k].df),
                                                          ta[price_groups[k].ticker])]]
    IN SelectSeq(scored, LAMBDA s : s.result # None)

Lookup(rows, ticker) == SelectSeq(rows, LAMBDA r : r.ticker = ticker)

(* pd.merge(fund_df, tech_df[["ticker", "price"]], on="ticker", how="left") *)
fund_with_price(fund_rows, tech) ==
    [cols |-> fundamentals_columns \cup {"price"},
     rows |-> SubSeq([k \in 1..Len(fund_rows) |->
                 LET hit == Lookup(tech, fund_rows[k].ticker)
                 IN [fund_rows[k] EXCEPT
                        !.price = IF Len(hit) = 0 THEN NaN ELSE Val(hit[1].result).price]],
                 1, Len(fund_rows))]

composite_score(w, technical_score, fundamental_score) ==
    RAdd(RMul(w.w_tech, technical_score), RMul(w.w_fund, fundamental_score))

merge_scores_left(tech, fund_scored, w) ==
    SubSeq([k \in 1..Len(tech) |->
        LET t == Val(tech[k].result)
            hit == Lookup(fund_scored, tech[k].ticker)
            f == IF Len(hit) = 0
                 THEN [fundamental_score |-> I(0), pe |-> NaN, market_cap |-> NaN,
                       target_upside |-> NaN]
                 ELSE hit[1]
        IN [ticker |-> tech[k].ticker,
            composite_score |-> composite_score(w, t.technical_score, f.fundamental_score),
            technical_score |-> t.technical_score,
            fundamental_score |-> f.fundamental_score,
            price |-> t.price,
            rsi_value |-> t.rsi_value,
            pe |-> f.pe,
            market_cap |-> f.market_cap,
            target_upside |-> f.target_upside]], 1, Len(tech))

(* pd.merge(tech_df, fund_scored, on="ticker", how="inner") with the       *)
(* composite score added, in the order of tech_df                          *)
merge_scores(tech, fund_scored, w) ==
    LET matched == SelectSeq(tech, LAMBDA s : Len(Lookup(fund_scored, s.ticker)) > 0)
    IN SubSeq([k \in 1..Len(matched) |->
           LET t == Val(matched[k].result)
               f == Lookup(fund_scored, matched[k].ticker)[1]
           IN [ticker |-> matched[k].ticker,
               composite_score |-> composite_score(w, t.technical_score, f.fundamental_score),
               technical_score |-> t.technical_score,
               fundamental_score |-> f.fundamental_score,
               price |-> t.price,
               rsi_value |-> t.rsi_value,
               pe |-> f.pe,
               market_cap |-> f.market_cap,
               target_upside |-> f.target_upside]], 1, Len(matched))

Injective(p) == \A i \in DOMAIN p, j \in DOMAIN p : p[i] = p[j] => i = j

sort_values_ascending(rows) ==
    LET n == Len(rows)
        orders == {p \in [1..n -> 1..n] :
                      /\ Injective(p)
                      /\ \A k \in 1..(n - 1) :
                            RLe(rows[p[k]].composite_score, rows[p[k + 1]].composite_score)}
    IN {SubSeq([k \in 1..n |-> rows[p[k]]], 1, n) : p \in orders}

(* sort_values("composite_score", ascending=False) with the default sort   *)
(* kind, which promises no order among equal keys: every descending order  *)
sort_values(rows) ==
    LET n == Len(rows)
        orders == {p \in [1..n -> 1..n] :
                      /\ Injective(p)
                      /\ \A k \in 1..(n - 1) :
                            RLe(rows[p[k + 1]].composite_score, rows[p[k]].composite_score)}
    IN {SubSeq([k \in 1..n |-> rows[p[k]]], 1, n) : p \in orders}

EmptyFrame == [empty |-> TRUE, rows |-> << >>]
ZeroDivisionError == [raised |-> "ZeroDivisionError"]
KeyError == [raised |-> "KeyError"]

(* The values score_universe computes on the way: the weights, the         *)
(* technical results, the scored fundamentals and the merged table before  *)
(* the sort.  stage is where the function leaves.                         *)
universe_run(conn, ta, lookback_days, weights) ==
    IF zero_total(weights) THEN [stage |-> "raised"]
    ELSE IF Len(query_all_fundamentals(conn)) = 0 THEN [stage |-> "no_fundamentals"]
    ELSE IF Len(query_recent_prices(conn, lookback_days)) = 0 THEN [stage |-> "no_prices"]
    ELSE LET tech == tech_results(query_recent_prices(conn, lookback_days), ta)
         IN IF Len(tech) = 0 THEN [stage |-> "no_results"]
            ELSE LET w == normalized_weights(weights)
                     scored == compute_fundamental_scores(
                                  fund_with_price(query_all_fundamentals(conn), tech))
                 IN [stage |-> "ranked",
                     w_tech |-> w.w_tech,
                     w_fund |-> w.w_fund,
                     tech_results |-> tech,
                     fund_columns |-> scored.cols,
                     fund_scored |-> scored.rows,
                     merged |-> merge_scores(tech, scored.rows, w)]

universe_outcomes_raising(run) ==
    CASE run.stage = "raised" -> {ZeroDivisionError}
      [] run.stage = "ranked" -> {[empty |-> FALSE, rows |-> rows] : rows \in sort_values(run.merged)}
      [] run.stage = "no_results" -> {KeyError}
      [] OTHER -> {EmptyFrame}

universe_outcomes(run) ==
    CASE run.stage = "raised" -> {ZeroDivisionError}
      [] run.stage = "ranked" -> {[empty |-> FALSE, rows |-> rows] : rows \in sort_values(run.merged)}
      [] OTHER -> {EmptyFrame}

----------------------------------------------------------------------------
(* The data pipeline: db.py, tickers.py, fundamentals.py, downloader.py    *)
(* and updater.py.  The store is a record db of the three tables: tickers, *)
(* a function from the ticker (its primary key) to the row; daily_prices,  *)
(* the set of the keys <<ticker, date>> of the price rows (the prices of a *)
(* row are not modelled); download_log, a function from the ticker to the  *)
(* row.  A ticker symbol is a number, in the collation order of the        *)
(* symbols.  A nullable cell is NULL or Some(value).  A date text          *)
(* "YYYY-MM-DD" is the triple <<year, month, day>>, which the zero-padded  *)
(* text renders one to one and in the same order.                          *)

BATCH_SIZE == 50
MAX_RETRIES == 3

NULL == << >>

init_db == [tickers |-> << >>, daily_prices |-> {}, download_log |-> << >>]

FundamentalColumns ==
    {"sector", "industry", "market_cap", "trailing_pe", "forward_pe",
     "dividend_yield", "beta"}

(* a row of tickers that an INSERT of (ticker, name, exchange) creates *)
ticker_row(name, exchange) ==
    [name |-> name, exchange |-> exchange, sector |-> NULL, industry |-> NULL,
     market_cap |-> NULL, trailing_pe |-> NULL, forward_pe |-> NULL,
     dividend_yield |-> NULL, beta |-> NULL, last_updated |-> NULL]

upsert_ticker_keeping(db, ticker, name, exchange) ==
    [db EXCEPT !.tickers =
        (ticker :> (IF ticker \in DOMAIN db.tickers
                    THEN [db.tickers[ticker] EXCEPT !.name = name, !.exchange = exchange]
                    ELSE ticker_row(name, exchange))) @@ db.tickers]

(* INSERT OR REPLACE INTO tickers (ticker, name, exchange): a row of the   *)
(* same key is deleted and the new row takes the column defaults           *)
upsert_ticker(db, ticker, name, exchange) ==
    [db EXCEPT !.tickers = (ticker :> ticker_row(name, exchange)) @@ db.tickers]

(* INSERT OR REPLACE INTO daily_prices; rows is the set of the keys        *)
(* <<ticker, date>> of the rows handed over                                *)
upsert_prices(db, rows) ==
    [db EXCEPT !.daily_prices = db.daily_prices \cup rows]

(* the order of the date texts *)
DateLe(a, b) ==
    \/ a[1] < b[1]
    \/ a[1] = b[1] /\ a[2] < b[2]
    \/ a[1] = b[1] /\ a[2] = b[2] /\ a[3] <= b[3]

(* SELECT MAX(date) ... WHERE ticker = ? *)
get_last_price_date(db, ticker) ==
    LET dates == {p[2] : p \in {q \in db.daily_prices : q[1] = ticker}}
    IN IF dates = {} THEN None
       ELSE Some(CHOOSE d \in dates : \A e \in dates : DateLe(e, d))

(* INSERT OR REPLACE INTO download_log (ticker, last_download,             *)
(* last_price_date, status, error_message): the row written, in which      *)
(* retry_count takes its default                                           *)
log_row(status, last_price_date, error_message) ==
    [last_download |-> "now", last_price_date |-> last_price_date,
     status |-> status, error_message |-> error_message, retry_count |-> 0]

update_download_log(db, ticker, status, last_price_date, error_message) ==
    [db EXCEPT !.download_log =
        (ticker :> log_row(status, last_price_date, error_message)) @@ db.download_log]

(* SELECT ticker FROM tickers ORDER BY ticker *)
OrderBy(S) ==
    SubSeq([k \in 1..Cardinality(S) |->
               CHOOSE x \in S : Cardinality({y \in S : y < x}) = k - 1],
           1, Cardinality(S))

(* tickers.py.  fetch_all_tickers() is the environment: the filtered       *)
(* listing, a sequence of records ticker, name, exchange.                  *)
RECURSIVE sync_upserts(_, _, _)
sync_upserts(db, tickers, i) ==
    IF i > Len(tickers) THEN db
    ELSE sync_upserts(upsert_ticker(db, tickers[i].ticker, tickers[i].name,
                                    tickers[i].exchange),
                      tickers, i + 1)

sync_tickers(db, tickers) ==
    LET existing == DOMAIN db.tickers
        updated_count == Cardinality({i \in 1..Len(tickers) : tickers[i].ticker \in existing})
        new_count == Len(tickers) - updated_count
    IN [db |-> sync_upserts(db, tickers, 1),
        result |-> [total |-> Len(tickers), new |-> new_count, updated |-> updated_count]]

(* fundamentals.py.  info[ticker] is what fetch_ticker_fundamentals        *)
(* returns for the ticker: None or the record of the seven fields.  The    *)
(* call is the one without a limit.                                        *)
fetch_all_fundamentals(db, info) ==
    LET tickers == DOMAIN db.tickers
        updated == {t \in tickers : info[t] # None}
    IN [db |-> [db EXCEPT !.tickers =
                   [t \in tickers |->
                       IF t \in updated
                       THEN [db.tickers[t] EXCEPT
                                !.sector = Val(info[t]).sector,
                                !.industry = Val(info[t]).industry,
                                !.market_cap = Val(info[t]).market_cap,
                                !.trailing_pe = Val(info[t]).trailing_pe,
                                !.forward_pe = Val(info[t]).forward_pe,
                                !.dividend_yield = Val(info[t]).dividend_yield,
                                !.beta = Val(info[t]).beta,
                                !.last_updated = Some("now")]
                       ELSE db.tickers[t]]],
        result |-> [processed |-> Cardinality(tickers),
                    updated |-> Cardinality(updated),
                    failed |-> Cardinality(tickers \ updated)]]

(* Dates.  datetime.strptime(last_date, "%Y-%m-%d") + timedelta(days=1),   *)
(* rendered back by strftime: the next day of the Gregorian calendar.      *)
IsLeap(y) == (y % 4 = 0 /\ y % 100 # 0) \/ y % 400 = 0

DaysIn(y, m) ==
    IF m = 2 THEN (IF IsLeap(y) THEN 29 ELSE 28)
    ELSE IF m \in {4, 6, 9, 11} THEN 30 ELSE 31

next_day(d) ==
    IF d[3] < DaysIn(d[1], d[2]) THEN <<d[1], d[2], d[3] + 1>>
    ELSE IF d[2] < 12 THEN <<d[1], d[2] + 1, 1>>
    ELSE <<d[1] + 1, 1, 1>>

start_date_same_day(last_date) == last_date

(* updater.py line 49 *)
start_date(last_date) == next_day(last_date)

RECURSIVE days_from(_, _)
days_from(first, n) ==
    IF n = 0 THEN << >> ELSE <<first>> \o days_from(next_day(first), n - 1)

(* The price provider.  world.kind says, for a request with period="max"   *)
(* and for one with start=, whether yf.download raises, returns an empty   *)
(* frame or returns data; world.per says for each ticker whether the data  *)
(* have no column group for it ("absent"), only rows without a close       *)
(* ("no_rows"), rows that fail in processing ("error") or n good rows      *)
(* ("rows").  A frame with no requested ticker in it is empty.  A full     *)
(* history starts at FirstListed; an incremental one at the start date.    *)
FirstListed == <<2024, 1, 10>>

yf_download(world, tickers, request) ==
    LET kind == world.kind[request.type]
        first == IF request.type = "max" THEN FirstListed ELSE Val(request.start)
    IN IF kind = "exception" THEN [kind |-> "exception"]
       ELSE IF kind = "empty"
               \/ \A i \in DOMAIN tickers : world.per[tickers[i]].kind = "absent"
       THEN [kind |-> "empty"]
       ELSE [kind |-> "data",
             per |-> [t \in {tickers[i] : i \in DOMAIN tickers} |->
                         [kind |-> world.per[t].kind,
                          dates |-> IF world.per[t].kind = "rows"
                                    THEN days_from(first, world.per[t].n)
                                    ELSE << >>]]]

(* downloader.py.  What download_batch does for one ticker of the batch:   *)
(* the log row it writes, the price rows it stores and what it adds to     *)
(* the stats.                                                              *)
NoStats == [downloaded |-> 0, failed |-> 0, rows |-> 0]

mark_failed(message) ==
    [row |-> log_row("failed", NULL, Some(message)), dates |-> << >>,
     downloaded |-> 0, failed |-> 1]

mark_no_data_uncounted ==
    [row |-> log_row("no_data", NULL, NULL), dates |-> << >>,
     downloaded |-> 0, failed |-> 0]

mark_no_data ==
    [row |-> log_row("no_data", NULL, NULL), dates |-> << >>,
     downloaded |-> 0, failed |-> 1]

(* lines 80-104: the rows of the ticker are stored and logged *)
store_rows(dates) ==
    [row |-> log_row("complete",
                     IF Len(dates) > 0 THEN Some(dates[Len(dates)]) ELSE NULL, NULL),
     dates |-> dates, downloaded |-> 1, failed |-> 0]

process_ticker(ticker, data, single) ==
    IF data.kind = "exception" THEN mark_failed("download")
    ELSE IF data.kind = "empty" THEN mark_no_data
    ELSE IF ~single /\ data.per[ticker].kind = "absent" THEN mark_no_data
    ELSE IF data.per[ticker].kind = "error" THEN mark_failed("processing")
    ELSE IF Len(data.per[ticker].dates) = 0 THEN mark_no_data
    ELSE store_rows(data.per[ticker].dates)

(* the tickers of a batch are handled in order, each write replacing the   *)
(* row of the same key: the store after the loop holds the last write for  *)
(* each ticker and the stats count every position                          *)
write_batch(db, tickers, done) ==
    LET n == Len(tickers)
        batch == {tickers[i] : i \in 1..n}
        last(t) == CHOOSE i \in 1..n : tickers[i] = t /\ \A j \in (i + 1)..n : tickers[j] # t
        rows == UNION {{<<tickers[i], done[i].dates[k]>> : k \in DOMAIN done[i].dates} :
                          i \in 1..n}
        logged == upsert_prices(db, rows)
    IN [logged EXCEPT !.download_log =
           ([t \in batch |-> done[last(t)].row] @@ << >>) @@ db.download_log]

download_batch(db, tickers, period, world) ==
    IF Len(tickers) = 0 THEN [db |-> db, stats |-> NoStats]
    ELSE LET n == Len(tickers)
             data == yf_download(world, tickers, [type |-> period, start |-> None])
             done == SubSeq([i \in 1..n |-> process_ticker(tickers[i], data, n = 1)], 1, n)
             downloaded == SubSeq([i \in 1..n |-> done[i].downloaded], 1, n)
             failed == SubSeq([i \in 1..n |-> done[i].failed], 1, n)
             rows == SubSeq([i \in 1..n |-> done[i].downloaded * Len(done[i].dates)], 1, n)
         IN [db |-> write_batch(db, tickers, done),
             stats |-> [downloaded |-> SumSeq(downloaded, 1, n),
                        failed |-> SumSeq(failed, 1, n),
                        rows |-> SumSeq(rows, 1, n)]]

(* all_tickers[:limit] *)
slice_to(s, limit) ==
    IF limit >= 0 THEN SubSeq(s, 1, IF limit < Len(s) THEN limit ELSE Len(s))
    ELSE SubSeq(s, 1, IF Len(s) + limit > 0 THEN Len(s) + limit ELSE 0)

select_tickers_limit_first(db, limit, tickers_list, resume) ==
    LET all_tickers == IF tickers_list # None THEN Val(tickers_list)
                       ELSE OrderBy(DOMAIN db.tickers)
        completed_set == {t \in DOMAIN db.download_log :
                             db.download_log[t].status = "complete"}
        limited == IF limit # None THEN slice_to(all_tickers, Val(limit)) ELSE all_tickers
    IN IF resume THEN SelectSeq(limited, LAMBDA t : t \notin completed_set) ELSE limited

(* lines 131-145 *)
select_tickers(db, limit, tickers_list, resume) ==
    LET all_tickers == IF tickers_list # None THEN Val(tickers_list)
                       ELSE OrderBy(DOMAIN db.tickers)
        completed_set == {t \in DOMAIN db.download_log :
                             db.download_log[t].status = "complete"}
        resumed == IF resume THEN SelectSeq(all_tickers, LAMBDA t : t \notin completed_set)
                   ELSE all_tickers
    IN IF limit # None THEN slice_to(resumed, Val(limit)) ELSE resumed

(* [all_tickers[i : i + BATCH_SIZE] for i in range(0, len, BATCH_SIZE)] *)
split_batches(all_tickers) ==
    LET n == Len(all_tickers)
        total_batches == (n + BATCH_SIZE - 1) \div BATCH_SIZE
    IN SubSeq([b \in 1..total_batches |->
                  SubSeq(all_tickers, (b - 1) * BATCH_SIZE + 1,
                         IF b * BATCH_SIZE < n THEN b * BATCH_SIZE ELSE n)],
              1, total_batches)

(* lines 166-194: the attempts on one batch.  raising is the number of     *)
(* attempts in which download_batch raises (a failing write to the store,  *)
(* before anything is written); calls are the batches handed to            *)
(* download_batch, in call order.                                          *)
attempt_batch(st, batch, world, raising) ==
    LET attempts == IF raising > MAX_RETRIES THEN MAX_RETRIES + 1 ELSE raising + 1
        calls == st.calls \o SubSeq([k \in 1..attempts |-> batch], 1, attempts)
        given_up == SubSeq([i \in 1..Len(batch) |-> mark_failed("retries")], 1, Len(batch))
    IN IF raising > MAX_RETRIES
       THEN [db |-> write_batch(st.db, batch, given_up),
             stats |-> [st.stats EXCEPT !.failed = @ + Len(batch)],
             calls |-> calls]
       ELSE LET batch_stats == download_batch(st.db, batch, "max", world)
            IN [db |-> batch_stats.db,
                stats |-> [downloaded |-> st.stats.downloaded + batch_stats.stats.downloaded,
                           failed |-> st.stats.failed + batch_stats.stats.failed,
                           rows |-> st.stats.rows + batch_stats.stats.rows],
                calls |-> calls]

RECURSIVE attempt_batches(_, _, _, _, _)
attempt_batches(st, batches, b, world, raising) ==
    IF b > Len(batches) THEN st
    ELSE attempt_batches(attempt_batch(st, batches[b], world, raising),
                         batches, b + 1, world, raising)

download_all(db, limit, tickers_list, resume, world, raising) ==
    LET all_tickers == select_tickers(db, limit, tickers_list, resume)
        batches == split_batches(all_tickers)
        done == attempt_batches([db |-> db, stats |-> NoStats, calls |-> << >>],
                                batches, 1, world, raising)
    IN [db |-> done.db, total_stats |-> done.stats, batches |-> batches,
        calls |-> done.calls]

(* updater.py.  st is the store, the two totals and the record of what was *)
(* asked: calls, the download_batch calls with the stats they returned,    *)
(* and requests, the incremental yf.download requests with what they       *)
(* added to the totals.                                                    *)
fresh_batch(st, batch, world) ==
    LET stats == download_batch(st.db, batch, "max", world)
    IN [st EXCEPT !.db = stats.db,
                  !.total_updated = @ + stats.stats.downloaded,
                  !.total_rows = @ + stats.stats.rows,
                  !.calls = Append(@, [tickers |-> batch, period |-> "max",
                                       stats |-> stats.stats])]

RECURSIVE fresh_batches(_, _, _, _)
fresh_batches(st, batches, b, world) ==
    IF b > Len(batches) THEN st
    ELSE fresh_batches(fresh_batch(st, batches[b], world), batches, b + 1, world)

(* lines 81-121: one ticker of an incremental batch; a ticker without     *)
(* usable rows, or whose rows fail in processing, is passed over           *)
incremental_ticker(ticker, data, single) ==
    IF ~single /\ data.per[ticker].kind = "absent" THEN None
    ELSE IF data.per[ticker].kind = "error" THEN None
    ELSE IF Len(data.per[ticker].dates) = 0 THEN None
    ELSE Some(store_rows(data.per[ticker].dates))

(* lines 67-125: one batch of one start date *)
incremental_batch(st, batch, start, world) ==
    LET data == yf_download(world, batch, [type |-> "start", start |-> Some(start)])
        n == Len(batch)
        done == IF data.kind = "data"
                THEN SubSeq([i \in 1..n |-> incremental_ticker(batch[i], data, n = 1)], 1, n)
                ELSE SubSeq([i \in 1..n |-> None], 1, n)
        stored == SelectSeq(SubSeq([i \in 1..n |-> i], 1, n), LAMBDA i : done[i] # None)
        m == Len(stored)
        tickers == SubSeq([k \in 1..m |-> batch[stored[k]]], 1, m)
        written == SubSeq([k \in 1..m |-> Val(done[stored[k]])], 1, m)
        rows == SubSeq([k \in 1..m |-> Len(written[k].dates)], 1, m)
    IN [db |-> IF m = 0 THEN st.db ELSE write_batch(st.db, tickers, written),
        total_updated |-> st.total_updated + m,
        total_rows |-> st.total_rows + SumSeq(rows, 1, m),
        calls |-> st.calls,
        requests |-> Append(st.requests,
                            [tickers |-> batch, start |-> start,
                             updated |-> m, rows |-> SumSeq(rows, 1, m)])]

RECURSIVE incremental_batches(_, _, _, _, _)
incremental_batches(st, batches, b, start, world) ==
    IF b > Len(batches) THEN st
    ELSE incremental_batches(incremental_batch(st, batches[b], start, world),
                             batches, b + 1, start, world)

(* incremental_groups.items(): the start dates in the order in which the   *)
(* loop over all_tickers first met them, each with its tickers in order    *)
RECURSIVE incremental_groups(_, _, _, _, _)
incremental_groups(st, starts, tickers, g, world) ==
    IF g > Len(starts) THEN st
    ELSE LET ticker_list == SelectSeq(tickers, LAMBDA t : t.start = starts[g])
             names == SubSeq([i \in 1..Len(ticker_list) |-> ticker_list[i].ticker],
                             1, Len(ticker_list))
         IN incremental_groups(
               incremental_batches(st, split_batches(names), 1, starts[g], world),
               starts, tickers, g + 1, world)

(* listing is what fetch_all_tickers returns, or None when it raises; the  *)
(* exception then leaves run_daily_update before anything is written.      *)
run_daily_update(db, include_fundamentals, listing, world, info) ==
    IF listing = None THEN [raised |-> TRUE, db |-> db]
    ELSE LET sync_result == sync_tickers(db, Val(listing))
             synced == sync_result.db
             all_tickers == OrderBy(DOMAIN synced.tickers)
             fresh_tickers ==
                 SelectSeq(all_tickers, LAMBDA t : get_last_price_date(synced, t) = None)
             dated == SelectSeq(all_tickers, LAMBDA t : get_last_price_date(synced, t) # None)
             incremental ==
                 SubSeq([i \in 1..Len(dated) |->
                            [ticker |-> dated[i],
                             start |-> start_date(Val(get_last_price_date(synced, dated[i])))]],
                        1, Len(dated))
             first_met == {i \in 1..Len(incremental) :
                              \A j \in 1..(i - 1) : incremental[j].start # incremental[i].start}
             met == OrderBy(first_met)
             starts == SubSeq([g \in 1..Len(met) |-> incremental[met[g]].start], 1, Len(met))
             st0 == [db |-> synced, total_updated |-> 0, total_rows |-> 0,
                     calls |-> << >>, requests |-> << >>]
             st1 == fresh_batches(st0, split_batches(fresh_tickers), 1, world)
             st2 == incremental_groups(st1, starts, incremental, 1, world)
             final == IF include_fundamentals
                      THEN fetch_all_fundamentals(st2.db, info).db
                      ELSE st2.db
         IN [raised |-> FALSE,
             db |-> final,
             synced |-> synced,
             calls |-> st2.calls,
             requests |-> st2.requests,
             summary |-> [tickers_synced |-> sync_result.result.total,
                          prices_updated |-> st2.total_updated,
                          new_rows |-> st2.total_rows]]

----------------------------------------------------------------------------
(* Bounds of the explored inputs *)

MaxLen == 5
MaxWindow == 2
MaxSwings == 2

PriceLevels == {1, 2}

RECURSIVE SeqsUpTo(_, _)
SeqsUpTo(S, k) ==
    IF k = 0 THEN {<< >>}
    ELSE LET shorter == SeqsUpTo(S, k - 1)
         IN shorter \cup {Append(s, x) : s \in {t \in shorter : Len(t) = k - 1}, x \in S}

SeqsOfLen(S, k) == {s \in SeqsUpTo(S, k) : Len(s) = k}

Floats(S) == {NaN} \cup {Num(I(k)) : k \in S}

RsiInputs == {NaN} \cup {Num(Q(k, 2)) : k \in 0..200}

(* Price frames for compute_technical_score, which runs the swing detector *)
(* with its default window and swing count: a frame of n bars is flat      *)
(* except for one bar every DefaultWindow + 1 bars, counted back from the  *)
(* last bar a swing can be reported at, whose High is raised by a bump and *)
(* whose Low is lowered by a dip.  The closes are a up to 50 bars before   *)
(* the end, b after that, and c at the last bar.                           *)

MaxBump == 3
MaxSpikes == DefaultNSwings + 1

SpikeAt(n, p) ==
    LET back == (n - DefaultWindow - 1) - p
    IN IF back >= 0 /\ back % (DefaultWindow + 1) = 0
          /\ back \div (DefaultWindow + 1) < MaxSpikes
       THEN MaxSpikes - back \div (DefaultWindow + 1)
       ELSE 0

Dip(bump, lowmode) ==
    CASE lowmode = "mirror" -> bump
      [] lowmode = "aligned" -> MaxSpikes - bump
      [] OTHER -> 0

Frame(n, bumps, lowmode, a, b, c) ==
    Some([High |-> SubSeq([i \in 1..n |->
                      IF SpikeAt(n, i - 1) = 0 THEN 10
                      ELSE 10 + bumps[SpikeAt(n, i - 1)]], 1, n),
          Low |-> SubSeq([i \in 1..n |->
                      IF SpikeAt(n, i - 1) = 0 THEN 9
                      ELSE 9 - Dip(bumps[SpikeAt(n, i - 1)], lowmode)], 1, n),
          Close |-> SubSeq([i \in 1..n |->
                      IF i = n THEN c ELSE IF i > n - 50 THEN b ELSE a], 1, n)])

Rising == <<0, 1, 2, 3, 4>>
Falling == <<4, 3, 2, 1, 0>>
Flat == <<0, 0, 0, 0, 0>>
LowModes == {"mirror", "aligned", "flat"}

(* The library's readings: what pandas_ta can report for a frame of n bars. *)
(* MACD(12, 26, 9) has no signal line or histogram before bar 34, RSI(14)   *)
(* nothing before bar 15 and the 20-bar bands nothing before bar 20.        *)
ta_history(n, ta) ==
    /\ n < 15 => isna(ta.rsi)
    /\ n < 26 => isna(ta.macd)
    /\ n < 34 => isna(ta.signal) /\ isna(ta.hist)
    /\ n < 35 => isna(ta.prev_hist)
    /\ n < 20 => isna(ta.bb_lower) /\ isna(ta.bb_mid) /\ isna(ta.bb_upper)

TaNone ==
    [rsi |-> NaN, macd |-> NaN, signal |-> NaN, hist |-> NaN, prev_hist |-> NaN,
     bb_lower |-> NaN, bb_mid |-> NaN, bb_upper |-> NaN]

TaReadings ==
    {[rsi |-> rsi, macd |-> m, signal |-> m, hist |-> hist, prev_hist |-> prev,
      bb_lower |-> bb[1], bb_mid |-> bb[2], bb_upper |-> bb[3]] :
        rsi \in Floats({20, 40, 50, 60, 80}),
        m \in Floats({1}),
        hist \in Floats({-1, 1}),
        prev \in Floats({1}),
        bb \in {<<NaN, NaN, NaN>>,
                <<Num(I(1)), Num(I(2)), Num(I(3))>>,
                <<Num(I(2)), Num(I(2)), Num(I(2))>>}}

TaCentres == {[TaNone EXCEPT !.rsi = r] : r \in Floats({20, 80})}

(* Universe tables for compute_fundamental_scores: up to MaxRows rows; the *)
(* cells of one group of columns range over all their values while the     *)
(* other columns follow a background pattern (all missing, all tied, or    *)
(* distinct and ascending).                                                 *)

MaxRows == 2

TickerNames == <<"A", "B", "C", "D", "E">>
Backgrounds == {"missing", "tied", "spread"}
UpsideColumns == {"price", "target_median"}

BgVal(bg, k) ==
    CASE bg = "missing" -> NaN
      [] bg = "tied" -> Num(I(1))
      [] OTHER -> Num(I(k))

BaseRow(k, bg, cols) ==
    [ticker |-> TickerNames[k],
     trailing_pe |-> NaN,
     forward_pe |-> BgVal(bg, k),
     dividend_yield |-> IF bg = "missing" THEN NaN ELSE Num(Q(Val(BgVal(bg, k)).n, 100)),
     beta |-> BgVal(bg, k),
     market_cap |-> BgVal(bg, k),
     target_median |-> IF "target_median" \in cols THEN BgVal(bg, k) ELSE NaN,
     price |-> IF "price" \in cols /\ bg # "missing" THEN Num(I(1)) ELSE NaN]

ForwardPeCells == Floats({0, 1, 2})
TrailingPeCells == Floats({-1, 1})
DividendCells == {NaN} \cup {Num(Q(k, 100)) : k \in {-1, 0, 5, 10, 15}}
BetaCells == {NaN} \cup {Num(Q(k, 2)) : k \in 0..4}
CapCells == Floats(1..3)
TargetCells == Floats({1, 3})
PriceCells == Floats({-1, 0, 1, 2})
PresentCells == Floats({-1, 0, 1, 2})

Table(cols, n, rows) == [cols |-> cols, rows |-> SubSeq(rows, 1, n)]

(* Databases for score_universe: up to MaxTickers tickers, each with or   *)
(* without a row in the tickers table and with or without a price history. *)
(* A short history has 25 bars; a stale one has 26 of its 35 bars within   *)
(* 34 days and 25 within 33; an old one has no bar within either.          *)

MaxTickers == 2

FundamentalsOptions == {"absent", "missing", "spread"}
HistoryOptions == {"none", "short", "rising", "stale", "old"}
LookbackOptions == {33, 34}

History(k, option) ==
    CASE option = "short" ->
            [ticker |-> TickerNames[k], last_age |-> 0,
             df |-> Val(Frame(MIN_BARS - 1, Flat, "flat", 1, 1, 1))]
      [] option = "rising" ->
            [ticker |-> TickerNames[k], last_age |-> 0,
             df |-> Val(Frame(35, Rising, "aligned", 1, 2, 3))]
      [] option = "falling" ->
            [ticker |-> TickerNames[k], last_age |-> 0,
             df |-> Val(Frame(35, Falling, "aligned", 3, 2, 1))]
      [] option = "stale" ->
            [ticker |-> TickerNames[k], last_age |-> 9,
             df |-> Val(Frame(35, Rising, "aligned", 1, 2, 3))]
      [] OTHER ->
            [ticker |-> TickerNames[k], last_age |-> 40,
             df |-> Val(Frame(35, Rising, "aligned", 1, 2, 3))]

Database(n, fund, hist) ==
    [tickers |-> SelectSeq(SubSeq([k \in 1..n |->
                     [BaseRow(k, fund[k], {}) EXCEPT !.ticker =
                         IF fund[k] = "absent" THEN "" ELSE TickerNames[k]]], 1, n),
                     LAMBDA r : r.ticker # ""),
     daily_prices |-> SelectSeq(SubSeq([k \in 1..n |->
                     IF hist[k] = "none" THEN [ticker |-> ""] ELSE History(k, hist[k])], 1, n),
                     LAMBDA h : h.ticker # "")]

WeightCells == {-1, 0, 1, 3}
WeightOptions ==
    {None} \cup {Some([technical |-> I(t), fundamental |-> I(f)]) :
                    t \in WeightCells, f \in WeightCells}

(* Stores, listings and provider behaviours for the pipeline.  A small     *)
(* store is built by the pipeline itself: a sync of a listing into the     *)
(* empty store, a fundamentals fetch, price rows and log rows of earlier   *)
(* downloads.                                                              *)
Symbols == 1..3

Listed(t) == [ticker |-> t, name |-> Some("listed"), exchange |-> Some("NASDAQ")]

ListingOf(ids) == SubSeq([i \in 1..Len(ids) |-> Listed(ids[i])], 1, Len(ids))

ListingOptions == {<< >>, <<1>>, <<2, 1>>, <<1, 2, 3>>, <<3, 3>>}

Fetched ==
    Some([sector |-> Some("Technology"), industry |-> Some("Software"),
          market_cap |-> Some(100), trailing_pe |-> Some(20), forward_pe |-> NULL,
          dividend_yield |-> Some(1), beta |-> Some(1)])

InfoFor(filled) == [t \in 1..(2 * BATCH_SIZE + 2) |-> IF t \in filled THEN Fetched ELSE None]

HistoryDates(option) ==
    CASE option = "mid" -> {<<2023, 12, 31>>, <<2024, 1, 10>>}
      [] option = "month_end" -> {<<2024, 1, 31>>}
      [] option = "leap" -> {<<2024, 2, 28>>, <<2024, 1, 31>>}
      [] option = "no_leap" -> {<<2023, 2, 28>>}
      [] option = "year_end" -> {<<2023, 12, 31>>, <<2023, 2, 28>>}
      [] OTHER -> {}

DateOptions == {"none", "mid", "month_end", "leap", "no_leap", "year_end"}

LogRow(status) ==
    [last_download |-> "earlier", last_price_date |-> NULL, status |-> status,
     error_message |-> NULL, retry_count |-> 0]

StatusOptions == {"none", "complete", "failed"}

PipelineStore(table, filled, hist, log) ==
    LET synced == sync_tickers(init_db, ListingOf(table)).db
        fetched == fetch_all_fundamentals(synced, InfoFor(filled)).db
        logged == {t \in DOMAIN log : log[t] # "none"}
    IN [fetched EXCEPT
           !.daily_prices = UNION {{<<t, d>> : d \in HistoryDates(hist[t])} : t \in DOMAIN hist},
           !.download_log = [t \in logged |-> LogRow(log[t])]]

NoHistory == [t \in Symbols |-> "none"]
NoLog == [t \in Symbols |-> "none"]

(* A store of n listed tickers, too many for one batch, with the log that  *)
(* an interrupted download leaves.                                         *)
LogPatterns == {"none", "some", "all"}

BigStore(n, pattern, dated) ==
    [tickers |-> [t \in 1..n |-> ticker_row(Some("listed"), Some("NASDAQ"))],
     daily_prices |-> {<<t, <<2024, 1, 10>>>> : t \in dated},
     download_log |->
        [t \in {s \in 1..n : \/ pattern = "all"
                             \/ pattern = "some" /\ s % 3 # 2} |->
            LogRow(IF pattern = "some" /\ t % 3 = 1 THEN "failed" ELSE "complete")]]

Outcomes ==
    {[kind |-> "absent", n |-> 0], [kind |-> "no_rows", n |-> 0],
     [kind |-> "error", n |-> 0], [kind |-> "rows", n |-> 1], [kind |-> "rows", n |-> 2]}

ResponseKinds == {"exception", "empty", "data"}

GoodWorld ==
    [kind |-> [max |-> "data", start |-> "data"],
     per |-> [t \in 1..(2 * BATCH_SIZE + 2) |-> [kind |-> "rows", n |-> 1]]]

MixedWorld ==
    [kind |-> [max |-> "data", start |-> "data"],
     per |-> [t \in 1..(2 * BATCH_SIZE + 2) |->
                 CASE t % 5 = 0 -> [kind |-> "absent", n |-> 0]
                   [] t % 5 = 1 -> [kind |-> "no_rows", n |-> 0]
                   [] t % 5 = 2 -> [kind |-> "error", n |-> 0]
                   [] t % 5 = 3 -> [kind |-> "rows", n |-> 1]
                   [] OTHER -> [kind |-> "rows", n |-> 2]]]

World(kmax, kstart, per) ==
    [kind |-> [max |-> kmax, start |-> kstart],
     per |-> [t \in 1..(2 * BATCH_SIZE + 2) |->
                 IF t \in DOMAIN per THEN per[t] ELSE [kind |-> "rows", n |-> 1]]]

----------------------------------------------------------------------------
(* The state machine: one action per function of the scoring engine.  A    *)
(* call is made from the idle state with inputs drawn from bounded sets,   *)
(* and leaves its arguments, its local values and its result in the state. *)

NoArgs == [none |-> TRUE]

Init ==
    /\ pc = "idle"
    /\ args = NoArgs
    /\ locals = NoArgs
    /\ ret = NoArgs

Call_score_rsi ==
    /\ pc = "idle"
    /\ \E rsi_value \in RsiInputs :
          /\ args' = [rsi_value |-> rsi_value]
          /\ ret' = score_rsi(rsi_value)
    /\ locals' = NoArgs
    /\ pc' = "score_rsi"

Call_score_macd ==
    /\ pc = "idle"
    /\ \E macd_val \in Floats({-1, 1}), signal_val \in Floats({-1, 1}),
          hist_val \in Floats(-2..2), prev_hist_val \in Floats(-2..2) :
          /\ args' = [macd_val |-> macd_val, signal_val |-> signal_val,
                      hist_val |-> hist_val, prev_hist_val |-> prev_hist_val]
          /\ ret' = score_macd(macd_val, signal_val, hist_val, prev_hist_val)
    /\ locals' = NoArgs
    /\ pc' = "score_macd"

Call_score_ma_crossover ==
    /\ pc = "idle"
    /\ \E price \in Floats(1..3), sma50 \in Floats(1..3), sma200 \in Floats(1..3) :
          /\ args' = [price |-> price, sma50 |-> sma50, sma200 |-> sma200]
          /\ ret' = score_ma_crossover(price, sma50, sma200)
    /\ locals' = NoArgs
    /\ pc' = "score_ma_crossover"

Call_score_bbands ==
    /\ pc = "idle"
    /\ \E price \in Floats(-1..11), bb_lower \in Floats({0, 5, 10}),
          bb_mid \in Floats({5}), bb_upper \in Floats({0, 5, 10}) :
          /\ args' = [price |-> price, bb_lower |-> bb_lower,
                      bb_mid |-> bb_mid, bb_upper |-> bb_upper]
          /\ ret' = score_bbands(price, bb_lower, bb_mid, bb_upper)
    /\ locals' = NoArgs
    /\ pc' = "score_bbands"

Call_detect_swings ==
    /\ pc = "idle"
    /\ \E len \in 0..MaxLen, window \in 1..MaxWindow :
       \E highs \in SeqsOfLen(PriceLevels, len), lows \in SeqsOfLen(PriceLevels, len) :
          /\ args' = [highs |-> highs, lows |-> lows, window |-> window]
          /\ ret' = detect_swings(highs, lows, window)
    /\ locals' = NoArgs
    /\ pc' = "detect_swings"

Call_score_momentum ==
    /\ pc = "idle"
    /\ \E len \in 0..MaxLen, window \in 1..MaxWindow, n_swings \in 1..MaxSwings :
       \E highs \in SeqsOfLen(PriceLevels, len), lows \in SeqsOfLen(PriceLevels, len) :
          /\ args' = [highs |-> highs, lows |-> lows, window |-> window,
                      n_swings |-> n_swings]
          /\ locals' = detect_swings(highs, lows, window)
          /\ ret' = score_momentum(highs, lows, window, n_swings)
    /\ pc' = "score_momentum"

technical_call(df, ta) ==
    /\ args' = [df |-> df, ta |-> ta]
    /\ locals' = IF df = None THEN NoArgs
                 ELSE [sma50_val |-> ta_sma(Val(df).Close, 50),
                       sma200_val |-> ta_sma(Val(df).Close, 200),
                       heap |-> technical_heap(df)]
    /\ ret' = compute_technical_score(df, ta)

(* The explored calls: no frame and frames too short; every frame of the   *)
(* family of 26 bars (three spikes in reach of the detector) and of 35     *)
(* bars (five) with no reading; every close pattern with a few frames and  *)
(* readings; every reading with a few frames.                              *)
Call_compute_technical_score ==
    /\ pc = "idle"
    /\ \/ \E df \in {None} : technical_call(df, TaNone)
       \/ \E n \in {0, 1, MIN_BARS - 1} :
             \E df \in {Frame(n, Flat, "flat", 1, 1, 1)} : technical_call(df, TaNone)
       \/ \E lowmode \in LowModes,
             b3 \in 0..MaxBump, b4 \in 0..MaxBump, b5 \in 0..MaxBump :
             \E df \in {Frame(MIN_BARS, <<0, 0, b3, b4, b5>>, lowmode, 1, 1, 1)} : technical_call(df, TaNone)
       \/ \E lowmode \in {"mirror", "aligned"},
             b1 \in 0..MaxBump, b2 \in 0..MaxBump, b3 \in 0..MaxBump,
             b4 \in 0..MaxBump, b5 \in 0..MaxBump :
             \E df \in {Frame(35, <<b1, b2, b3, b4, b5>>, lowmode, 1, 1, 1)} : technical_call(df, TaNone)
       \/ \E n \in {MIN_BARS, 35, 60, 200}, bumps \in {Rising, Falling, Flat},
             a \in 1..3, b \in 1..3, c \in 1..3, ta \in TaCentres \cup {TaNone} :
             /\ ta_history(n, ta)
             /\ \E df \in {Frame(n, bumps, "aligned", a, b, c)} : technical_call(df, ta)
       \/ \E n \in {MIN_BARS, 35}, bumps \in {Rising, Falling},
             c \in 1..3, ta \in TaReadings :
             /\ ta_history(n, ta)
             /\ \E df \in {Frame(n, bumps, "aligned", 1, 2, c)} : technical_call(df, ta)
       \/ \E ta \in TaReadings :
             \E df \in {Frame(200, Rising, "aligned", 1, 2, 3)} : technical_call(df, ta)
    /\ pc' = "compute_technical_score"

fundamental_call(t) ==
    /\ args' = [fundamentals_df |-> t]
    /\ \E run \in {fundamental_heap(t)} :
          /\ locals' = [heap |-> run.heap]
          /\ ret' = run.heap[run.returned]

Call_compute_fundamental_scores ==
    /\ pc = "idle"
    /\ \E n \in 0..MaxRows, bg \in Backgrounds :
       \/ \E fwd \in [1..n -> ForwardPeCells], trail \in [1..n -> TrailingPeCells] :
             LET row(k) == [BaseRow(k, bg, UpsideColumns) EXCEPT
                               !.forward_pe = fwd[k], !.trailing_pe = trail[k]]
             IN \E t \in {Table(UpsideColumns, n, [k \in 1..n |-> row(k)])} : fundamental_call(t)
       \/ \E div \in [1..n -> DividendCells] :
             LET row(k) == [BaseRow(k, bg, UpsideColumns) EXCEPT !.dividend_yield = div[k]]
             IN \E t \in {Table(UpsideColumns, n, [k \in 1..n |-> row(k)])} : fundamental_call(t)
       \/ \E beta \in [1..n -> BetaCells] :
             LET row(k) == [BaseRow(k, bg, UpsideColumns) EXCEPT !.beta = beta[k]]
             IN \E t \in {Table(UpsideColumns, n, [k \in 1..n |-> row(k)])} : fundamental_call(t)
       \/ \E cap \in [1..n -> CapCells] :
             LET row(k) == [BaseRow(k, bg, UpsideColumns) EXCEPT !.market_cap = cap[k]]
             IN \E t \in {Table(UpsideColumns, n, [k \in 1..n |-> row(k)])} : fundamental_call(t)
       \/ \E target \in [1..n -> TargetCells], price \in [1..n -> PriceCells] :
             LET row(k) == [BaseRow(k, IF bg = "tied" THEN "spread" ELSE bg, UpsideColumns) EXCEPT
                               !.target_median = target[k], !.price = price[k]]
             IN \E t \in {Table(UpsideColumns, n, [k \in 1..n |-> row(k)])} : fundamental_call(t)
       \/ \E cols \in (SUBSET UpsideColumns) \ {UpsideColumns},
             present \in [1..n -> PresentCells] :
             LET row(k) == [BaseRow(k, bg, cols) EXCEPT
                               !.target_median = IF "target_median" \in cols
                                                 THEN present[k] ELSE NaN,
                               !.price = IF "price" \in cols THEN present[k] ELSE NaN]
             IN \E t \in {Table(cols, n, [k \in 1..n |-> row(k)])} : fundamental_call(t)
    /\ pc' = "compute_fundamental_scores"

universe_call(conn, ta, lookback_days, weights) ==
    /\ args' = [conn |-> conn, ta |-> ta, lookback_days |-> lookback_days,
                weights |-> weights]
    /\ \E run \in {universe_run(conn, ta, lookback_days, weights)} :
          /\ locals' = run
          /\ \E out \in universe_outcomes(run) : ret' = out

(* The explored calls: every weighting over databases of scorable tickers, *)
(* and every database under the default weights.                           *)
Call_score_universe ==
    /\ pc = "idle"
    /\ \E n \in 0..MaxTickers :
       \/ \E weights \in WeightOptions,
             fund \in [1..n -> {"absent", "spread"}],
             hist \in [1..n -> {"none", "rising", "falling"}] :
             \E conn \in {Database(n, fund, hist)} :
                universe_call(conn, [t \in {TickerNames[k] : k \in 1..n} |-> TaNone],
                              250, weights)
       \/ \E weights \in {None},
             lookback_days \in LookbackOptions,
             fund \in [1..n -> FundamentalsOptions],
             hist \in [1..n -> HistoryOptions] :
             \E conn \in {Database(n, fund, hist)} :
                universe_call(conn, [t \in {TickerNames[k] : k \in 1..n} |-> TaNone],
                              lookback_days, weights)
    /\ pc' = "score_universe"

(* The pipeline calls.  args holds the arguments and the environment of    *)
(* the call (the listing, the provider, the fundamentals feed); locals     *)
(* the store after the call and what the call did on the way; ret the      *)
(* value returned.                                                         *)
Call_sync_tickers ==
    /\ pc = "idle"
    /\ \E table \in {<< >>, <<1>>, <<1, 2>>}, some \in {{}, {1}, {1, 2}},
          ids \in ListingOptions :
          \E conn \in {PipelineStore(table, some, NoHistory, NoLog)} :
          \E run \in {sync_tickers(conn, ListingOf(ids))} :
             /\ args' = [conn |-> conn, listing |-> ListingOf(ids)]
             /\ locals' = [conn |-> run.db]
             /\ ret' = run.result
    /\ pc' = "sync_tickers"

Call_fetch_all_fundamentals ==
    /\ pc = "idle"
    /\ \E table \in {<< >>, <<1>>, <<2, 1>>}, before \in {{}, {1}},
          now \in {{}, {1}, {2}, {1, 2}} :
          \E conn \in {PipelineStore(table, before, NoHistory, NoLog)} :
          \E run \in {fetch_all_fundamentals(conn, InfoFor(now))} :
             /\ args' = [conn |-> conn, info |-> InfoFor(now)]
             /\ locals' = [conn |-> run.db]
             /\ ret' = run.result
    /\ pc' = "fetch_all_fundamentals"

batch_call(conn, tickers, world) ==
    \E run \in {download_batch(conn, tickers, "max", world)} :
       /\ args' = [conn |-> conn, tickers |-> tickers, period |-> "max", world |-> world]
       /\ locals' = [conn |-> run.db]
       /\ ret' = run.stats

Call_download_batch ==
    /\ pc = "idle"
    /\ \E tickers \in {<< >>, <<1>>, <<1, 2>>, <<2, 1, 3>>},
          log \in {NoLog, [NoLog EXCEPT ![1] = "complete"]} :
          \E conn \in {PipelineStore(<<1, 2, 3>>, {}, NoHistory, log)} :
             \/ \E kind \in {"exception", "empty"} :
                   batch_call(conn, tickers, World(kind, "data", << >>))
             \/ \E per \in [{tickers[i] : i \in DOMAIN tickers} -> Outcomes] :
                   batch_call(conn, tickers, World("data", "data", per))
    /\ pc' = "download_batch"

all_call(conn, limit, tickers_list, resume, world, raising) ==
    \E run \in {download_all(conn, limit, tickers_list, resume, world, raising)} :
       /\ args' = [conn |-> conn, limit |-> limit, tickers_list |-> tickers_list,
                   resume |-> resume, world |-> world, raising |-> raising]
       /\ locals' = [conn |-> run.db, batches |-> run.batches, calls |-> run.calls]
       /\ ret' = run.total_stats

Call_download_all ==
    /\ pc = "idle"
    /\ \/ \E log \in [Symbols -> StatusOptions],
             limit \in {None, Some(0), Some(1), Some(2)},
             tickers_list \in {None, Some(<<3, 1>>), Some(<< >>)},
             resume \in BOOLEAN :
             \E conn \in {PipelineStore(<<1, 2, 3>>, {}, NoHistory, log)} :
                all_call(conn, limit, tickers_list, resume, GoodWorld, 0)
       \/ \E n \in {BATCH_SIZE, 2 * BATCH_SIZE + 1},
             pattern \in LogPatterns,
             limit \in {None, Some(BATCH_SIZE + 10)},
             resume \in BOOLEAN :
             \E conn \in {BigStore(n, pattern, {})} :
                all_call(conn, limit, None, resume, MixedWorld, 0)
       \/ \E n \in {BATCH_SIZE + 1, 2 * BATCH_SIZE + 1},
             limit \in {None},
             resume \in BOOLEAN,
             raising \in {1, MAX_RETRIES + 1} :
             \E conn \in {BigStore(n, "some", {})} :
                all_call(conn, limit, None, resume, GoodWorld, raising)
    /\ pc' = "download_all"

update_call(conn, include_fundamentals, listing, world, info) ==
    \E run \in {run_daily_update(conn, include_fundamentals, listing, world, info)} :
       /\ args' = [conn |-> conn, include_fundamentals |-> include_fundamentals,
                   listing |-> listing, world |-> world, info |-> info]
       /\ locals' = IF run.raised THEN [conn |-> run.db]
                    ELSE [conn |-> run.db, synced |-> run.synced, calls |-> run.calls,
                          requests |-> run.requests]
       /\ ret' = IF run.raised THEN [raised |-> "Exception"] ELSE run.summary

Call_run_daily_update ==
    /\ pc = "idle"
    /\ \/ \E table \in {<<1, 2>>, <<1, 2, 3>>},
             h1 \in DateOptions, h2 \in {"none", "mid", "leap"},
             listing \in {None, Some(<< >>), Some(ListingOf(<<2>>)),
                          Some(ListingOf(<<1, 2, 3>>))},
             include_fundamentals \in BOOLEAN,
             kstart \in ResponseKinds :
             \E conn \in {PipelineStore(table, {1, 2, 3},
                                        [NoHistory EXCEPT ![1] = h1, ![2] = h2], NoLog)} :
                update_call(conn, include_fundamentals, listing,
                            World("data", kstart, << >>), InfoFor({3}))
       \/ \E per \in [Symbols -> Outcomes], kmax \in ResponseKinds :
             \E conn \in {PipelineStore(<<1, 2, 3>>, {1},
                                        [NoHistory EXCEPT ![2] = "mid", ![3] = "mid"], NoLog)} :
                update_call(conn, FALSE, Some(ListingOf(<<3, 1>>)),
                            World(kmax, "data", per), InfoFor({}))
       \/ \E world \in {GoodWorld, MixedWorld} :
             \E conn \in {BigStore(2 * BATCH_SIZE + 2, "none",
                                   (BATCH_SIZE + 2)..(2 * BATCH_SIZE + 2))} :
                update_call(conn, FALSE, Some(ListingOf(<<1>>)), world, InfoFor({}))
    /\ pc' = "run_daily_update"

Return ==
    /\ pc # "idle"
    /\ pc' = "idle"
    /\ args' = NoArgs
    /\ locals' = NoArgs
    /\ ret' = NoArgs

Next ==
    \/ Call_score_rsi
    \/ Call_score_macd
    \/ Call_score_ma_crossover
    \/ Call_score_bbands
    \/ Call_detect_swings
    \/ Call_score_momentum
    \/ Call_compute_technical_score
    \/ Call_compute_fundamental_scores
    \/ Call_score_universe
    \/ Call_sync_tickers
    \/ Call_fetch_all_fundamentals
    \/ Call_download_batch
    \/ Call_download_all
    \/ Call_run_daily_update
    \/ Return

Spec == Init /\ [][Next]_vars

----------------------------------------------------------------------------
(* Properties *)

InUnit(r) == RLe(I(-1), r) /\ RLe(r, I(1))
InZeroOne(r) == RLe(I(0), r) /\ RLe(r, I(1))
Clamp(r) == IF RLt(r, I(-1)) THEN I(-1) ELSE IF RLt(I(1), r) THEN I(1) ELSE r

SignalScorers ==
    {"score_rsi", "score_macd", "score_ma_crossover", "score_bbands", "score_momentum"}

(* C1: whatever the input, NaN included, each of the five per-signal        *)
(* scorers returns a value in the closed interval [-1, +1].                 *)
C1_ScorersInRange ==
    pc \in SignalScorers => InUnit(ret)

(* A NaN previous histogram with a positive histogram scores the bound +1.  *)
C1_Witness ==
    /\ pc = "score_macd"
    /\ isna(args.prev_hist_val)
    /\ ret = I(1)

(* C2: for a frame of 26 or more bars compute_technical_score returns       *)
(* technical_score = (0.20 rsi + 0.0 macd + 0.30 ma_crossover + 0.0 bbands  *)
(* + 0.50 momentum + 1) / 2 of the scores it reports, a value in [0, 1].    *)
C2_TechnicalScoreFormula ==
    (pc = "compute_technical_score" /\ args.df # None
        /\ Len(Val(args.df).Close) >= 26) =>
       /\ ret # None
       /\ LET r == Val(ret)
              sum == RAdd(RAdd(RMul(Q(1, 5), r.rsi_score),
                               RMul(Q(3, 10), r.ma_crossover_score)),
                          RMul(Q(1, 2), r.momentum_score))
          IN /\ r.technical_score = RDiv(RAdd(sum, I(1)), I(2))
             /\ InZeroOne(r.technical_score)

(* All three weighted signals at +1 give the upper bound 1.0. *)
C2_Witness ==
    /\ pc = "compute_technical_score"
    /\ ret # None
    /\ Val(ret).rsi_score = I(1)
    /\ Val(ret).ma_crossover_score = I(1)
    /\ Val(ret).momentum_score = I(1)
    /\ Val(ret).technical_score = I(1)

(* The points of a swing list that a count is taken over, and the net of    *)
(* the strict rises and falls between consecutive ones.                     *)
Recent(pts, n_swings) ==
    [k \in 1..(IF Len(pts) < n_swings + 1 THEN Len(pts) ELSE n_swings + 1) |->
        pts[Len(pts) - (IF Len(pts) < n_swings + 1 THEN Len(pts) ELSE n_swings + 1) + k][2]]

Rises(v) == Cardinality({k \in 1..(Len(v) - 1) : v[k] < v[k + 1]})
Falls(v) == Cardinality({k \in 1..(Len(v) - 1) : v[k] > v[k + 1]})
StrictlyRising(v) == \A k \in 1..(Len(v) - 1) : v[k] < v[k + 1]
StrictlyFalling(v) == \A k \in 1..(Len(v) - 1) : v[k] > v[k + 1]

(* C5: with at least n_swings + 1 points in both swing lists the momentum   *)
(* score is net / (2 n_swings) clamped to [-1, +1], net counted over the    *)
(* most recent n_swings + 1 points of each list, ties counting as neither;  *)
(* strictly rising recent highs and lows give +1, strictly falling -1.      *)
C5_MomentumFormula ==
    (pc = "score_momentum"
        /\ Len(locals.swing_highs) >= args.n_swings + 1
        /\ Len(locals.swing_lows) >= args.n_swings + 1) =>
       LET h == Recent(locals.swing_highs, args.n_swings)
           l == Recent(locals.swing_lows, args.n_swings)
           net == (Rises(h) + Rises(l)) - (Falls(l) + Falls(h))
       IN /\ ret = Clamp(Q(net, 2 * args.n_swings))
          /\ (StrictlyRising(h) /\ StrictlyRising(l)) => ret = I(1)
          /\ (StrictlyFalling(h) /\ StrictlyFalling(l)) => ret = I(-1)

C5_Witness ==
    /\ pc = "score_momentum"
    /\ Len(locals.swing_highs) >= args.n_swings + 1
    /\ Len(locals.swing_lows) >= args.n_swings + 1
    /\ StrictlyRising(Recent(locals.swing_highs, args.n_swings))
    /\ StrictlyRising(Recent(locals.swing_lows, args.n_swings))
    /\ ret = I(1)

(* C6 as stated: once either swing list has n_swings + 1 points, the pairs  *)
(* of both lists are counted, also those of the list that has fewer.        *)
C6_BothListsCounted ==
    (pc = "score_momentum"
        /\ (Len(locals.swing_highs) >= args.n_swings + 1
            \/ Len(locals.swing_lows) >= args.n_swings + 1)) =>
       LET h == Recent(locals.swing_highs, args.n_swings)
           l == Recent(locals.swing_lows, args.n_swings)
       IN ret = Clamp(Q((Rises(h) + Rises(l)) - (Falls(l) + Falls(h)),
                        2 * args.n_swings))

(* C6 amended: once either swing list has n_swings + 1 points the formula   *)
(* net / (2 n_swings) applies, but a list is counted only if it has         *)
(* n_swings + 1 points itself; a shorter list contributes nothing.          *)
C6_EachListGated ==
    (pc = "score_momentum"
        /\ (Len(locals.swing_highs) >= args.n_swings + 1
            \/ Len(locals.swing_lows) >= args.n_swings + 1)) =>
       LET h == IF Len(locals.swing_highs) >= args.n_swings + 1
                THEN Recent(locals.swing_highs, args.n_swings) ELSE << >>
           l == IF Len(locals.swing_lows) >= args.n_swings + 1
                THEN Recent(locals.swing_lows, args.n_swings) ELSE << >>
       IN ret = Clamp(Q((Rises(h) + Rises(l)) - (Falls(l) + Falls(h)),
                        2 * args.n_swings))

(* One list is long enough, the other is shorter and has a strict rise or   *)
(* fall between its points, which is left out of the score.                 *)
C6_Witness ==
    /\ pc = "score_momentum"
    /\ Len(locals.swing_highs) >= args.n_swings + 1
    /\ Len(locals.swing_lows) < args.n_swings + 1
    /\ Rises(Recent(locals.swing_lows, args.n_swings)) > 0
    /\ ret = I(0)

WindowMax(s, i, window) ==
    CHOOSE m \in {s[k + 1] : k \in (i - window)..(i + window)} :
        \A k \in (i - window)..(i + window) : s[k + 1] <= m
WindowMin(s, i, window) ==
    CHOOSE m \in {s[k + 1] : k \in (i - window)..(i + window)} :
        \A k \in (i - window)..(i + window) : m <= s[k + 1]
Points(pts) == {pts[k] : k \in 1..Len(pts)}
ByPosition(pts) == \A k \in 1..(Len(pts) - 1) : pts[k][1] < pts[k + 1][1]

(* C7: the swing highs are exactly the pairs (i, High[i]) with              *)
(* window <= i < n - window and High[i] the maximum of High over            *)
(* [i - window, i + window], ties included, in increasing order of i; the   *)
(* swing lows likewise with the minimum of Low; both lists are empty when   *)
(* n <= 2 window.                                                           *)
C7_SwingsExact ==
    pc = "detect_swings" =>
       LET n == Len(args.highs)
           w == args.window
           inner == {i \in 0..(n - 1) : w <= i /\ i < n - w}
       IN /\ Points(ret.swing_highs) =
                {<<i, args.highs[i + 1]>> : i \in
                    {j \in inner : args.highs[j + 1] = WindowMax(args.highs, j, w)}}
          /\ Points(ret.swing_lows) =
                {<<i, args.lows[i + 1]>> : i \in
                    {j \in inner : args.lows[j + 1] = WindowMin(args.lows, j, w)}}
          /\ ByPosition(ret.swing_highs)
          /\ ByPosition(ret.swing_lows)
          /\ n <= 2 * w => (ret.swing_highs = << >> /\ ret.swing_lows = << >>)

(* Two neighbouring bars tie for the maximum and are both reported. *)
C7_Witness ==
    /\ pc = "detect_swings"
    /\ \E k \in 1..(Len(ret.swing_highs) - 1) :
          /\ ret.swing_highs[k + 1][1] = ret.swing_highs[k][1] + 1
          /\ ret.swing_highs[k + 1][2] = ret.swing_highs[k][2]
    /\ Len(ret.swing_highs) < Len(args.highs) - 2 * args.window

(* C8: the momentum score is 0.0 when both swing lists have fewer than      *)
(* n_swings + 1 points, so for every series with n <= 2 window; one list    *)
(* with n_swings + 1 points passes the check, its rises and falls then      *)
(* deciding the score.                                                      *)
C8_InsufficientSwings ==
    pc = "score_momentum" =>
       LET long_h == Len(locals.swing_highs) >= args.n_swings + 1
           long_l == Len(locals.swing_lows) >= args.n_swings + 1
           h == Recent(locals.swing_highs, args.n_swings)
           l == Recent(locals.swing_lows, args.n_swings)
       IN /\ (~long_h /\ ~long_l) => ret = I(0)
          /\ Len(args.highs) <= 2 * args.window => ret = I(0)
          /\ (long_h /\ ~long_l /\ Rises(h) # Falls(h)) => ret # I(0)
          /\ (long_l /\ ~long_h /\ Rises(l) # Falls(l)) => ret # I(0)

(* Only the swing lows reach n_swings + 1 points, and they decide a score.  *)
C8_Witness ==
    /\ pc = "score_momentum"
    /\ Len(locals.swing_lows) >= args.n_swings + 1
    /\ Len(locals.swing_highs) < args.n_swings + 1
    /\ ret # I(0)

TechnicalKeys ==
    {"price", "rsi_value", "rsi_score", "macd_score", "ma_crossover_score",
     "bbands_score", "momentum_score", "technical_score"}

(* C9: compute_technical_score returns None for no frame or a frame of      *)
(* fewer than 26 bars, and for 26 or more bars a record with the eight      *)
(* keys, an indicator that is undefined for lack of history scoring 0.0.    *)
C9_NoneOrRecord ==
    pc = "compute_technical_score" =>
       IF args.df = None THEN ret = None
       ELSE IF Len(Val(args.df).Close) < 26 THEN ret = None
       ELSE /\ ret # None
            /\ DOMAIN Val(ret) = TechnicalKeys
            /\ isna(args.ta.rsi) => Val(ret).rsi_score = I(0)
            /\ (isna(args.ta.macd) \/ isna(args.ta.signal) \/ isna(args.ta.hist))
                  => Val(ret).macd_score = I(0)
            /\ (Len(Val(args.df).Close) < 200) => Val(ret).ma_crossover_score = I(0)
            /\ isna(args.ta.bb_lower) => Val(ret).bbands_score = I(0)

(* Exactly 26 bars: a record, the moving averages undefined and scored 0.0  *)
(* while the swing detector finds enough swings for a momentum score.       *)
C9_Witness ==
    /\ pc = "compute_technical_score"
    /\ args.df # None
    /\ Len(Val(args.df).Close) = 26
    /\ ret # None
    /\ isna(locals.sma200_val)
    /\ Val(ret).ma_crossover_score = I(0)
    /\ Val(ret).momentum_score # I(0)

SubScores ==
    {"pe_score", "dividend_score", "beta_score", "market_cap_score", "target_upside_score"}

(* C3: every row returned by compute_fundamental_scores has                 *)
(* fundamental_score = 0.25 pe_score + 0.20 dividend_score + 0.15 beta_score *)
(* + 0.25 market_cap_score + 0.15 target_upside_score, each sub-score and   *)
(* the fundamental score lying in [0, 1], whatever is missing, tied, zero   *)
(* or negative and whether or not the price and target columns exist.       *)
C3_FundamentalScoreFormula ==
    pc = "compute_fundamental_scores" =>
       /\ Len(ret.rows) = Len(args.fundamentals_df.rows)
       /\ \A k \in 1..Len(ret.rows) :
             LET r == ret.rows[k]
             IN /\ \A c \in SubScores : InZeroOne(r[c])
                /\ r.fundamental_score =
                      RAdd(RAdd(RAdd(RAdd(RMul(Q(1, 4), r.pe_score),
                                          RMul(Q(1, 5), r.dividend_score)),
                                     RMul(Q(3, 20), r.beta_score)),
                                RMul(Q(1, 4), r.market_cap_score)),
                           RMul(Q(3, 20), r.target_upside_score))
                /\ InZeroOne(r.fundamental_score)

(* A row whose forward P/E is not positive, hence without a P/E, that still *)
(* scores 0.5 or more on its other attributes.                              *)
C3_Witness ==
    /\ pc = "compute_fundamental_scores"
    /\ \E k \in 1..Len(ret.rows) :
          /\ ~isna(ret.rows[k].forward_pe)
          /\ isna(ret.rows[k].pe)
          /\ ret.rows[k].pe_score = I(0)
          /\ RLe(Q(1, 2), ret.rows[k].fundamental_score)

(* The ranked attributes of the rows of a scored table *)
CappedYield(rows) ==
    [k \in 1..Len(rows) |->
        IF isna(rows[k].dividend_yield) THEN NaN
        ELSE IF RLt(Q(1, 10), Val(rows[k].dividend_yield)) THEN Num(Q(1, 10))
        ELSE rows[k].dividend_yield]

BetaGap(rows) ==
    [k \in 1..Len(rows) |->
        IF isna(rows[k].beta) THEN NaN
        ELSE IF RLt(Val(rows[k].beta), I(1)) THEN Num(RSub(I(1), Val(rows[k].beta)))
        ELSE Num(RSub(Val(rows[k].beta), I(1)))]

Known(vals) == {j \in DOMAIN vals : ~isna(vals[j])}

(* (number of non-missing members <= v) / k *)
AtOrBelowRank(vals, k) ==
    Q(Cardinality({j \in Known(vals) : RLe(Val(vals[j]), Val(vals[k]))}),
      Cardinality(Known(vals)))

(* the mean of the positions 1..k that the members equal to v take when the *)
(* non-missing members are put in ascending order, over k                  *)
MeanPositionRank(vals, k) ==
    LET below == Cardinality({j \in Known(vals) : RLt(Val(vals[j]), Val(vals[k]))})
        same == Cardinality({j \in Known(vals) : Val(vals[j]) = Val(vals[k])})
    IN RDiv(RAdd(I(below), Q(same + 1, 2)), I(Cardinality(Known(vals))))

RanksAs(rule) ==
    pc = "compute_fundamental_scores" =>
       LET Rank(vals, k) == IF rule = "mean position" THEN MeanPositionRank(vals, k)
                            ELSE AtOrBelowRank(vals, k)
           rows == ret.rows
           pe == [k \in 1..Len(rows) |-> rows[k].pe]
           div == CappedYield(rows)
           gap == BetaGap(rows)
           cap == [k \in 1..Len(rows) |-> rows[k].market_cap]
           up == [k \in 1..Len(rows) |-> rows[k].target_upside]
       IN \A k \in 1..Len(rows) :
             /\ ~isna(pe[k]) => rows[k].pe_score = RSub(I(1), Rank(pe, k))
             /\ ~isna(div[k]) => rows[k].dividend_score = Rank(div, k)
             /\ ~isna(gap[k]) => rows[k].beta_score = RSub(I(1), Rank(gap, k))
             /\ ~isna(cap[k]) => rows[k].market_cap_score = Rank(cap, k)
             /\ ~isna(up[k]) => rows[k].target_upside_score = Rank(up, k)

GivenWeights ==
    IF args.weights = None THEN [technical |-> Q(6, 10), fundamental |-> Q(4, 10)]
    ELSE Val(args.weights)

(* C10: for weights with a non-zero sum score_universe uses                 *)
(* w_tech = technical / (technical + fundamental) and                       *)
(* w_fund = fundamental / (technical + fundamental), which add up to 1, and *)
(* every returned row has composite_score = w_tech * technical_score +      *)
(* w_fund * fundamental_score; with weights {technical: 1, fundamental: 0}  *)
(* composite_score equals technical_score on every row.                     *)
C10_WeightsNormalized ==
    (pc = "score_universe"
        /\ RAdd(GivenWeights.technical, GivenWeights.fundamental) # I(0)) =>
       /\ ret # ZeroDivisionError
       /\ ~ret.empty =>
             LET total == RAdd(GivenWeights.technical, GivenWeights.fundamental)
             IN /\ locals.w_tech = RDiv(GivenWeights.technical, total)
                /\ locals.w_fund = RDiv(GivenWeights.fundamental, total)
                /\ RAdd(locals.w_tech, locals.w_fund) = I(1)
                /\ \A k \in 1..Len(ret.rows) :
                      /\ ret.rows[k].composite_score =
                            RAdd(RMul(locals.w_tech, ret.rows[k].technical_score),
                                 RMul(locals.w_fund, ret.rows[k].fundamental_score))
                      /\ (GivenWeights.technical = I(1) /\ GivenWeights.fundamental = I(0))
                            => ret.rows[k].composite_score = ret.rows[k].technical_score

(* Weights 3 and 1 become 0.75 and 0.25, and a returned row's composite     *)
(* score lies strictly between its two differing scores.                    *)
C10_Witness ==
    /\ pc = "score_universe"
    /\ args.weights = Some([technical |-> I(3), fundamental |-> I(1)])
    /\ locals.stage = "ranked"
    /\ locals.w_tech = Q(3, 4)
    /\ Len(ret.rows) = 2
    /\ \E k \in 1..2 :
          /\ RLt(ret.rows[k].fundamental_score, ret.rows[k].composite_score)
          /\ RLt(ret.rows[k].composite_score, ret.rows[k].technical_score)

(* The bars of a stored history dated on or after the cutoff, the bars     *)
(* being one day apart and the latest last_age days old.                   *)
BarsSince(h, lookback_days) ==
    Cardinality({i \in 1..Len(h.df.Close) :
                    (Len(h.df.Close) - i) + h.last_age <= lookback_days})

WithFundamentals == {args.conn.tickers[k].ticker : k \in 1..Len(args.conn.tickers)}

WithHistory ==
    {args.conn.daily_prices[k].ticker : k \in
        {j \in 1..Len(args.conn.daily_prices) :
            BarsSince(args.conn.daily_prices[j], args.lookback_days) >= 26}}

(* A call of score_universe with weights that have a non-zero sum *)
Scoring ==
    /\ pc = "score_universe"
    /\ RAdd(GivenWeights.technical, GivenWeights.fundamental) # I(0)

Raised(r) == "raised" \in DOMAIN r

(* C11: the table score_universe returns has exactly one row for each      *)
(* ticker that has a fundamentals record and at least 26 bars inside the   *)
(* lookback window, and no other row; a ticker lacking either is left out  *)
(* without an error, whatever the other tickers are.                       *)
C11_RowsAreScorableTickers ==
    Scoring =>
       /\ ~Raised(ret)
       /\ {ret.rows[k].ticker : k \in 1..Len(ret.rows)} = WithFundamentals \cap WithHistory
       /\ Len(ret.rows) = Cardinality(WithFundamentals \cap WithHistory)

(* One ticker is returned; the other has a fundamentals record and a       *)
(* stored history of 35 bars, of which only 25 are inside the window.      *)
C11_Witness ==
    /\ Scoring
    /\ Len(ret.rows) = 1
    /\ Cardinality(WithFundamentals) = 2
    /\ \E k \in 1..Len(args.conn.daily_prices) :
          /\ Len(args.conn.daily_prices[k].df.Close) = 35
          /\ BarsSince(args.conn.daily_prices[k], args.lookback_days) = 25

(* C12: the rows score_universe returns are in descending order of         *)
(* composite_score: each row's score is at least the next row's.           *)
C12_SortedDescending ==
    (Scoring /\ ~Raised(ret)) =>
       \A k \in 1..(Len(ret.rows) - 1) :
          RLe(ret.rows[k + 1].composite_score, ret.rows[k].composite_score)

(* The join put the lower composite score first and the sort turned the    *)
(* two rows round.                                                         *)
C12_Witness ==
    /\ Scoring
    /\ locals.stage = "ranked"
    /\ Len(locals.merged) = 2
    /\ RLt(locals.merged[1].composite_score, locals.merged[2].composite_score)
    /\ ret.rows = <<locals.merged[2], locals.merged[1]>>

JoinPosition(ticker) ==
    CHOOSE k \in 1..Len(locals.merged) : locals.merged[k].ticker = ticker

(* C13: rows of equal composite_score are returned in the order they had   *)
(* after the join of the technical and the fundamental results.            *)
C13_TiesKeepJoinOrder ==
    (Scoring /\ ~Raised(ret) /\ locals.stage = "ranked") =>
       \A i \in 1..Len(ret.rows), j \in 1..Len(ret.rows) :
          (i < j /\ ret.rows[i].composite_score = ret.rows[j].composite_score)
             => JoinPosition(ret.rows[i].ticker) < JoinPosition(ret.rows[j].ticker)

NoBarsInWindow ==
    \A k \in 1..Len(args.conn.daily_prices) :
       BarsSince(args.conn.daily_prices[k], args.lookback_days) = 0

C15_UpsideScoredInUniverse ==
    (Scoring /\ locals.stage = "ranked") =>
       /\ {"price", "target_median"} \subseteq locals.fund_columns
       /\ \A k \in 1..Len(locals.fund_scored) :
             LET r == locals.fund_scored[k]
             IN IF isna(r.target_median) \/ isna(r.price) \/ ~RLt(I(0), Val(r.price))
                THEN r.target_upside_score = I(0)
                ELSE /\ r.target_upside =
                           Num(RDiv(RSub(Val(r.target_median), Val(r.price)), Val(r.price)))
                     /\ RLt(I(0), r.target_upside_score)

Scored == pc = "compute_fundamental_scores"

Positive(v) == ~isna(v) /\ RLt(I(0), Val(v))

(* C16: pe is forward_pe when it is present and trailing_pe otherwise; a   *)
(* pe <= 0 is missing, also when the other P/E is positive; a row without  *)
(* a pe has pe_score 0.0; a row with one has 1 - percentile rank, so that  *)
(* a strictly lower pe has a strictly higher pe_score.                     *)
C16_PeScore ==
    Scored =>
       LET rows == ret.rows
           given == args.fundamentals_df.rows
           pe == [k \in 1..Len(rows) |-> rows[k].pe]
       IN \A k \in 1..Len(rows) :
             LET picked == IF isna(given[k].forward_pe) THEN given[k].trailing_pe
                           ELSE given[k].forward_pe
             IN /\ rows[k].pe = IF Positive(picked) THEN picked ELSE NaN
                /\ isna(rows[k].pe) => rows[k].pe_score = I(0)
                /\ ~isna(rows[k].pe) =>
                      rows[k].pe_score = RSub(I(1), MeanPositionRank(pe, k))
                /\ \A j \in 1..Len(rows) :
                      (~isna(pe[j]) /\ ~isna(pe[k]) /\ RLt(Val(pe[j]), Val(pe[k])))
                         => RLt(rows[k].pe_score, rows[j].pe_score)

(* A forward P/E of zero or less beside a positive trailing P/E: no pe and *)
(* the score 0.0, while the other row takes its pe from trailing_pe.       *)
C16_Witness ==
    /\ Scored
    /\ Len(ret.rows) = 2
    /\ ~isna(ret.rows[1].forward_pe) /\ ~Positive(ret.rows[1].forward_pe)
    /\ Positive(ret.rows[1].trailing_pe)
    /\ isna(ret.rows[1].pe)
    /\ ret.rows[1].pe_score = I(0)
    /\ isna(ret.rows[2].forward_pe)
    /\ ret.rows[2].pe = ret.rows[2].trailing_pe
    /\ ~isna(ret.rows[2].pe)

AllMissing(r) ==
    /\ isna(r.pe) /\ isna(r.dividend_yield) /\ isna(r.beta)
    /\ isna(r.market_cap) /\ isna(r.target_upside)

(* C17: a missing attribute becomes a default score, never NaN or an       *)
(* error: 0.0 for a missing pe, dividend_yield, market_cap or target       *)
(* upside and 0.5 for a missing beta, a row with a beta getting            *)
(* 1 - percentile rank of |beta - 1|; a row with every attribute missing   *)
(* has fundamental_score 0.15 * 0.5 = 0.075.                               *)
C17_MissingDefaults ==
    Scored =>
       \A k \in 1..Len(ret.rows) :
          LET r == ret.rows[k]
          IN /\ \A c \in SubScores : DOMAIN r[c] = {"n", "d"}
             /\ isna(r.pe) => r.pe_score = I(0)
             /\ isna(r.dividend_yield) => r.dividend_score = I(0)
             /\ isna(r.market_cap) => r.market_cap_score = I(0)
             /\ isna(r.target_upside) => r.target_upside_score = I(0)
             /\ isna(r.beta) => r.beta_score = Q(1, 2)
             /\ ~isna(r.beta) =>
                   r.beta_score = RSub(I(1), MeanPositionRank(BetaGap(ret.rows), k))
             /\ AllMissing(r) => r.fundamental_score = Q(75, 1000)

(* A row with nothing but its ticker scores 0.075 beside a row with a beta *)
C17_Witness ==
    /\ Scored
    /\ Len(ret.rows) = 2
    /\ AllMissing(ret.rows[1])
    /\ ret.rows[1].beta_score = Q(1, 2)
    /\ ret.rows[1].fundamental_score = Q(3, 40)
    /\ ~isna(ret.rows[2].beta)

(* The target upside of a given row, where it has a target and a positive  *)
(* price in a table that has both columns                                  *)
HasUpside(k) ==
    /\ {"price", "target_median"} \subseteq args.fundamentals_df.cols
    /\ ~isna(args.fundamentals_df.rows[k].target_median)
    /\ Positive(args.fundamentals_df.rows[k].price)

Upside(k) ==
    LET r == args.fundamentals_df.rows[k]
    IN IF HasUpside(k)
       THEN Num(RDiv(RSub(Val(r.target_median), Val(r.price)), Val(r.price)))
       ELSE NaN

(* C18: of two rows that both have a positive price and a target_median,   *)
(* the one with the strictly greater target upside has the strictly        *)
(* greater target_upside_score, and equal upsides have equal scores.       *)
C18_UpsideMonotone ==
    Scored =>
       \A j \in 1..Len(ret.rows), k \in 1..Len(ret.rows) :
          (HasUpside(j) /\ HasUpside(k)) =>
             /\ RLt(Val(Upside(j)), Val(Upside(k)))
                   => RLt(ret.rows[j].target_upside_score, ret.rows[k].target_upside_score)
             /\ Upside(j) = Upside(k)
                   => ret.rows[j].target_upside_score = ret.rows[k].target_upside_score

(* Different prices and targets, the greater upside on the higher price *)
C18_Witness ==
    /\ Scored
    /\ Len(ret.rows) = 2
    /\ HasUpside(1) /\ HasUpside(2)
    /\ RLt(Val(args.fundamentals_df.rows[1].price), Val(args.fundamentals_df.rows[2].price))
    /\ RLt(Val(Upside(1)), Val(Upside(2)))
    /\ ret.rows[1].target_upside_score = Q(1, 2)
    /\ ret.rows[2].target_upside_score = I(1)

(* C19: target_upside_score is exactly 0.0, with no division error, for a  *)
(* row whose target_median or price is missing or whose price is <= 0, and *)
(* for every row of a table without a price or a target_median column;     *)
(* these rows count in no other row's rank denominator.                    *)
C19_UpsideDefault ==
    Scored =>
       LET ups == [k \in 1..Len(ret.rows) |-> Upside(k)]
       IN \A k \in 1..Len(ret.rows) :
             /\ ~HasUpside(k) => /\ ret.rows[k].target_upside_score = I(0)
                                 /\ isna(ret.rows[k].target_upside)
             /\ HasUpside(k) =>
                   /\ ret.rows[k].target_upside = Upside(k)
                   /\ ret.rows[k].target_upside_score = MeanPositionRank(ups, k)

(* A price of zero beside a target: the score 0.0, and the other row ranks *)
(* 1.0 as the only one of its column.                                      *)
C19_Witness ==
    /\ Scored
    /\ Len(ret.rows) = 2
    /\ {"price", "target_median"} \subseteq args.fundamentals_df.cols
    /\ args.fundamentals_df.rows[1].price = Num(I(0))
    /\ ~isna(args.fundamentals_df.rows[1].target_median)
    /\ ret.rows[1].target_upside_score = I(0)
    /\ HasUpside(2)
    /\ ret.rows[2].target_upside_score = I(1)

(* C20: _score_rsi is +1.0 below 30, +0.5 on [30, 45), 0.0 on [45, 55],    *)
(* -0.5 on (55, 70], -1.0 above 70 and 0.0 for NaN; 30, 55 and 70 score    *)
(* +0.5, 0.0 and -0.5.                                                     *)
C20_RsiBands ==
    pc = "score_rsi" =>
       IF isna(args.rsi_value) THEN ret = I(0)
       ELSE LET rsi == Val(args.rsi_value)
            IN /\ RLt(rsi, I(30)) => ret = I(1)
               /\ (RLe(I(30), rsi) /\ RLt(rsi, I(45))) => ret = Q(1, 2)
               /\ (RLe(I(45), rsi) /\ RLe(rsi, I(55))) => ret = I(0)
               /\ (RLt(I(55), rsi) /\ RLe(rsi, I(70))) => ret = Q(-1, 2)
               /\ RLt(I(70), rsi) => ret = I(-1)
               /\ rsi = I(30) => ret = Q(1, 2)
               /\ rsi = I(55) => ret = I(0)
               /\ rsi = I(70) => ret = Q(-1, 2)

(* The boundary 30 is in the +0.5 band. *)
C20_Witness ==
    /\ pc = "score_rsi"
    /\ args.rsi_value = Num(I(30))
    /\ ret = Q(1, 2)

----------------------------------------------------------------------------
(* The remaining per-signal scorers *)

Numbers(S) == {Num(I(k)) : k \in S}

(* C21: _score_macd returns 0 when macd, signal or the histogram is NaN;   *)
(* otherwise, a NaN previous histogram counting as 0, a bullish zero-cross *)
(* (prevHist <= 0 < hist) scores +1, a bearish one (prevHist >= 0 > hist)  *)
(* -1, else a positive growing histogram +0.5, a negative falling one      *)
(* -0.5, else 0; the two crosses never both apply and the result is the    *)
(* same for every non-NaN macd and signal value.                           *)
C21_MacdScore ==
    pc = "score_macd" =>
        LET missing == isna(args.macd_val) \/ isna(args.signal_val) \/ isna(args.hist_val)
            prevHist == IF isna(args.prev_hist_val) THEN I(0) ELSE Val(args.prev_hist_val)
            hist == Val(args.hist_val)
            bullish == RLe(prevHist, I(0)) /\ RLt(I(0), hist)
            bearish == RLe(I(0), prevHist) /\ RLt(hist, I(0))
            growing == RLt(I(0), hist) /\ RLt(prevHist, hist)
            falling == RLt(hist, I(0)) /\ RLt(hist, prevHist)
        IN /\ missing => ret = I(0)
           /\ ~missing =>
                 /\ ~(bullish /\ bearish)
                 /\ bullish => ret = I(1)
                 /\ bearish => ret = I(-1)
                 /\ ~bullish /\ ~bearish /\ growing => ret = Q(1, 2)
                 /\ ~bullish /\ ~bearish /\ ~growing /\ falling => ret = Q(-1, 2)
                 /\ ~bullish /\ ~bearish /\ ~growing /\ ~falling => ret = I(0)
                 /\ \A m \in Numbers(-3..3), s \in Numbers(-3..3) :
                       score_macd(m, s, args.hist_val, args.prev_hist_val) = ret

(* The histogram leaves zero upwards: previous exactly 0, now positive.    *)
C21_Witness ==
    /\ pc = "score_macd"
    /\ ~isna(args.macd_val) /\ ~isna(args.signal_val) /\ ~isna(args.hist_val)
    /\ args.prev_hist_val = Num(I(0))
    /\ args.hist_val = Num(I(2))
    /\ ret = I(1)

(* C22: _score_ma_crossover returns 0 when price, sma50 or sma200 is NaN;  *)
(* otherwise with sma50 > sma200 it returns +1 for price > sma50 and -0.25 *)
(* for price <= sma50, and with sma50 <= sma200 it returns +0.5 for        *)
(* price > sma50 and -1 for price <= sma50.                                *)
C22_MaCrossoverScore ==
    pc = "score_ma_crossover" =>
        LET missing == isna(args.price) \/ isna(args.sma50) \/ isna(args.sma200)
            golden == RLt(Val(args.sma200), Val(args.sma50))
            above == RLt(Val(args.sma50), Val(args.price))
        IN /\ missing => ret = I(0)
           /\ ~missing /\ golden /\ above => ret = I(1)
           /\ ~missing /\ golden /\ ~above => ret = Q(-1, 4)
           /\ ~missing /\ ~golden /\ above => ret = Q(1, 2)
           /\ ~missing /\ ~golden /\ ~above => ret = I(-1)

(* In the golden regime a price exactly on sma50 is not above it.          *)
C22_Witness ==
    /\ pc = "score_ma_crossover"
    /\ args.sma50 = Num(I(2)) /\ args.sma200 = Num(I(1))
    /\ args.price = args.sma50
    /\ ret = Q(-1, 4)

(* C23: _score_bbands returns 0 when price or a band is NaN and 0 when the *)
(* upper band equals the lower one; otherwise, with position =             *)
(* (price - lower) / (upper - lower), it returns +1 for position <= 0,     *)
(* +0.5 for 0 < position <= 0.2, 0 for 0.2 < position <= 0.8, -0.5 for     *)
(* 0.8 < position < 1 and -1 for position >= 1.                            *)
C23_BbandsScore ==
    pc = "score_bbands" =>
        LET missing == \/ isna(args.price) \/ isna(args.bb_lower)
                       \/ isna(args.bb_mid) \/ isna(args.bb_upper)
            width == RSub(Val(args.bb_upper), Val(args.bb_lower))
            position == RDiv(RSub(Val(args.price), Val(args.bb_lower)), width)
        IN /\ missing => ret = I(0)
           /\ ~missing /\ width = I(0) => ret = I(0)
           /\ ~missing /\ width # I(0) =>
                 /\ RLe(position, I(0)) => ret = I(1)
                 /\ RLt(I(0), position) /\ RLe(position, Q(1, 5)) => ret = Q(1, 2)
                 /\ RLt(Q(1, 5), position) /\ RLe(position, Q(4, 5)) => ret = I(0)
                 /\ RLt(Q(4, 5), position) /\ RLt(position, I(1)) => ret = Q(-1, 2)
                 /\ RLe(I(1), position) => ret = I(-1)

(* A price exactly one fifth of the way up the band still scores +0.5.     *)
C23_Witness ==
    /\ pc = "score_bbands"
    /\ args.bb_lower = Num(I(0)) /\ args.bb_upper = Num(I(10))
    /\ args.bb_mid = Num(I(5))
    /\ args.price = Num(I(2))
    /\ ret = Q(1, 2)

----------------------------------------------------------------------------
(* The zero-weighted signals *)

(* Another MACD and Bollinger reading the library could report for the     *)
(* same frame of n bars, every other reading kept: a downward cross inside *)
(* the bands where ta has no bands, an upward cross and no bands where it  *)
(* has them.                                                               *)
OtherReadings(n, ta) ==
    {alt \in {[ta EXCEPT !.macd = m[1], !.signal = m[1], !.hist = m[2], !.prev_hist = m[3],
                         !.bb_lower = m[4], !.bb_mid = m[5], !.bb_upper = m[6]] :
                 m \in {IF isna(ta.bb_mid)
                        THEN <<Num(I(1)), Num(I(-1)), Num(I(1)),
                               Num(I(1)), Num(I(2)), Num(I(3))>>
                        ELSE <<Num(I(1)), Num(I(1)), NaN, NaN, NaN, NaN>>}} :
        ta_history(n, alt)}

(* the number of bars score_universe hands over for a ticker *)
BarsOf(conn, lookback_days, ticker) ==
    LET g == Lookup(query_recent_prices(conn, lookback_days), ticker)
    IN IF Len(g) = 0 THEN 0 ELSE Len(g[1].df.Close)

OtherReadingsPerTicker(conn, lookback_days, ta) ==
    {[t \in DOMAIN ta |->
         IF ta_history(BarsOf(conn, lookback_days, t), alt) THEN alt ELSE ta[t]] :
       alt \in OtherReadings(35, TaNone)}

(* C24: macd_score and bbands_score are reported by compute_technical_score *)
(* but do not influence technical_score: it is a function of rsi_score,    *)
(* ma_crossover_score and momentum_score alone, the same frame gets the    *)
(* same technical_score under any other MACD and Bollinger readings, and   *)
(* score_universe then returns the same ranked table.                      *)
C24_ZeroWeightSignals ==
    /\ pc = "compute_technical_score" /\ ret # None =>
          LET r == Val(ret)
              n == Len(Val(args.df).Close)
          IN /\ {"macd_score", "bbands_score"} \subseteq DOMAIN r
             /\ r.technical_score =
                   RDiv(RAdd(RAdd(RAdd(RMul(Q(2, 10), r.rsi_score),
                                       RMul(Q(3, 10), r.ma_crossover_score)),
                                  RMul(Q(5, 10), r.momentum_score)), I(1)), I(2))
             /\ \A alt \in OtherReadings(n, args.ta) :
                   LET other == Val(compute_technical_score(args.df, alt))
                   IN /\ other.rsi_score = r.rsi_score
                      /\ other.ma_crossover_score = r.ma_crossover_score
                      /\ other.momentum_score = r.momentum_score
                      /\ other.technical_score = r.technical_score
    /\ pc = "score_universe" =>
          \A alt \in OtherReadingsPerTicker(args.conn, args.lookback_days, args.ta) :
             universe_outcomes(universe_run(args.conn, alt, args.lookback_days,
                                            args.weights))
                = universe_outcomes(locals)

(* A frame whose MACD histogram crosses zero downwards and whose price is  *)
(* scored against the bands; the same frame with an upward cross and no    *)
(* bands has the same technical score.                                     *)
C24_Witness ==
    /\ pc = "compute_technical_score"
    /\ ret # None
    /\ Val(ret).macd_score = I(-1)
    /\ Val(ret).bbands_score # I(0)
    /\ \E alt \in OtherReadings(Len(Val(args.df).Close), args.ta) :
          /\ Val(compute_technical_score(args.df, alt)).macd_score = I(1)
          /\ Val(compute_technical_score(args.df, alt)).technical_score
                = Val(ret).technical_score

----------------------------------------------------------------------------
(* Inputs are read-only *)

InputColumns ==
    {"ticker", "trailing_pe", "forward_pe", "dividend_yield", "beta", "market_cap",
     "target_median", "price"}

AddedColumns ==
    {"pe", "pe_score", "dividend_score", "beta_score", "market_cap_score",
     "target_upside", "target_upside_score", "fundamental_score"}

(* C25: scoring never mutates its inputs.  After compute_technical_score   *)
(* the caller's frame is the frame that was passed; after                  *)
(* compute_fundamental_scores the caller's table is the table that was     *)
(* passed (the function writes to a copy, the blanked non-positive prices  *)
(* included), and the returned table has the same tickers in the same      *)
(* order, every input cell as given except a blanked price, and the added  *)
(* score columns.                                                          *)
C25_InputsUnchanged ==
    /\ pc = "compute_technical_score" /\ args.df # None =>
          locals.heap.df = args.df
    /\ pc = "compute_fundamental_scores" =>
          /\ locals.heap.fundamentals_df = args.fundamentals_df
          /\ ret.cols = args.fundamentals_df.cols
          /\ Len(ret.rows) = Len(args.fundamentals_df.rows)
          /\ \A k \in 1..Len(ret.rows) :
                LET given == args.fundamentals_df.rows[k]
                    scored == ret.rows[k]
                IN /\ DOMAIN scored = InputColumns \cup AddedColumns
                   /\ \A c \in InputColumns \ {"price"} : scored[c] = given[c]
                   /\ \/ scored.price = given.price
                      \/ /\ isna(scored.price)
                         /\ RLe(Val(given.price), I(0))

(* A table with a non-positive price: the returned copy has the price      *)
(* blanked while the caller's table still holds it.                        *)
C25_Witness ==
    /\ pc = "compute_fundamental_scores"
    /\ \E k \in 1..Len(ret.rows) :
          /\ isna(ret.rows[k].price)
          /\ ~isna(args.fundamentals_df.rows[k].price)
          /\ locals.heap.fundamentals_df.rows[k].price = Num(I(-1))

----------------------------------------------------------------------------
(* Flat series *)

Constant(s) == \A i \in DOMAIN s, j \in DOMAIN s : s[i] = s[j]

(* the points at every position of [window, n - window), all of value v *)
EveryInnerPoint(n, window, v) ==
    SubSeq([k \in 1..(n - 2 * window) |-> <<window + k - 1, v>>], 1, n - 2 * window)

FlatCall ==
    /\ pc \in {"detect_swings", "score_momentum"}
    /\ Constant(args.highs) /\ Constant(args.lows)
    /\ Len(args.highs) > 2 * args.window

FlatFrame ==
    /\ pc = "compute_technical_score"
    /\ ret # None
    /\ Constant(Val(args.df).High) /\ Constant(Val(args.df).Low)

(* C26: on a series of constant High and constant Low of length            *)
(* n > 2*window, _detect_swings reports every position of                  *)
(* [window, n - window) as a swing high and as a swing low, n - 2*window   *)
(* points in each list, and _score_momentum returns 0 on such a series     *)
(* (equal consecutive swing values are neither higher nor lower).          *)
C26_FlatSeries ==
    /\ FlatCall =>
          LET sw == IF pc = "detect_swings" THEN ret ELSE locals
              n == Len(args.highs)
          IN /\ sw.swing_highs = EveryInnerPoint(n, args.window, args.highs[1])
             /\ sw.swing_lows = EveryInnerPoint(n, args.window, args.lows[1])
             /\ Len(sw.swing_highs) = n - 2 * args.window
             /\ Len(sw.swing_lows) = n - 2 * args.window
             /\ pc = "score_momentum" => ret = I(0)
    /\ FlatFrame =>
          /\ Val(ret).momentum_score = I(0)
          /\ detect_swings(Val(args.df).High, Val(args.df).Low, DefaultWindow).swing_highs
                = EveryInnerPoint(Len(Val(args.df).High), DefaultWindow, Val(args.df).High[1])

(* A flat series with enough swing points to pass the count gate: five     *)
(* bars, window 1, three points in each list, two transitions compared.    *)
C26_Witness ==
    /\ FlatCall
    /\ pc = "score_momentum"
    /\ Len(locals.swing_highs) = 3 /\ Len(locals.swing_lows) = 3
    /\ args.n_swings = 2
    /\ ret = I(0)

(* A flat frame of 26 bars under the default window has 16 swing lows.     *)
C26_WitnessFrame ==
    /\ FlatFrame
    /\ Len(detect_swings(Val(args.df).High, Val(args.df).Low, DefaultWindow).swing_lows) = 16

----------------------------------------------------------------------------
(* The data pipeline *)

ListedTickers(listing) == {listing[i].ticker : i \in DOMAIN listing}

Reset(row) == \A c \in FundamentalColumns \cup {"last_updated"} : row[c] = NULL

(* C27: upsert_ticker replaces the whole row of a ticker already present,  *)
(* so after sync_tickers every listed ticker has sector, industry,         *)
(* market_cap, trailing_pe, forward_pe, dividend_yield, beta and           *)
(* last_updated NULL, and so it has after run_daily_update without         *)
(* include_fundamentals, whatever fetch_all_fundamentals had stored.       *)
C27_SyncResetsFundamentals ==
    /\ pc = "sync_tickers" =>
          \A t \in ListedTickers(args.listing) :
             /\ t \in DOMAIN locals.conn.tickers
             /\ Reset(locals.conn.tickers[t])
    /\ pc = "run_daily_update" /\ args.listing # None /\ ~args.include_fundamentals =>
          \A t \in ListedTickers(Val(args.listing)) :
             /\ t \in DOMAIN locals.conn.tickers
             /\ Reset(locals.conn.tickers[t])

(* A ticker whose sector had been fetched is listed again by a daily       *)
(* update without fundamentals: its sector is NULL afterwards.             *)
C27_Witness ==
    /\ pc = "run_daily_update"
    /\ args.listing # None
    /\ ~args.include_fundamentals
    /\ \E t \in ListedTickers(Val(args.listing)) :
          /\ t \in DOMAIN args.conn.tickers
          /\ args.conn.tickers[t].sector = Some("Technology")
          /\ locals.conn.tickers[t].sector = NULL

RECURSIVE Flatten(_)
Flatten(batches) ==
    IF Len(batches) = 0 THEN << >>
    ELSE Flatten(SubSeq(batches, 1, Len(batches) - 1)) \o batches[Len(batches)]

Members(s) == {s[i] : i \in DOMAIN s}

Complete(log, t) == t \in DOMAIN log /\ log[t].status = "complete"

(* the tickers download_all is to hand over: the source list, without the  *)
(* completed ones on resume, cut to the limit afterwards                   *)
Wanted ==
    LET source == IF args.tickers_list # None THEN Val(args.tickers_list)
                  ELSE OrderBy(DOMAIN args.conn.tickers)
    IN IF args.resume
       THEN SelectSeq(source, LAMBDA t : ~Complete(args.conn.download_log, t))
       ELSE source

Expected ==
    IF args.limit = None \/ Val(args.limit) >= Len(Wanted) THEN Wanted
    ELSE SubSeq(Wanted, 1, Val(args.limit))

(* C28: download_all with resume hands to download_batch exactly the       *)
(* tickers of the table (or of the explicit list) whose log status is not  *)
(* 'complete', cut to the first limit of them after that filter, each in   *)
(* exactly one batch of at most BATCH_SIZE tickers and in the original     *)
(* order; without resume the completed tickers are handed over as well.    *)
C28_ResumeSelection ==
    pc = "download_all" =>
       LET batches == locals.batches
           calls == locals.calls
           handed == Flatten(batches)
           first(k) == CHOOSE b \in DOMAIN batches : batches[b] = calls[k]
       IN /\ handed = Expected
          /\ \A b \in DOMAIN batches :
                Len(batches[b]) >= 1 /\ Len(batches[b]) <= BATCH_SIZE
          /\ \A i \in DOMAIN handed, j \in DOMAIN handed :
                handed[i] = handed[j] => i = j
          /\ Members(calls) = Members(batches)
          /\ \A k \in 1..(Len(calls) - 1) : first(k) <= first(k + 1)

(* A resumed download of a table of more than two batches in which         *)
(* completed tickers are passed over and the limit cuts what is left into  *)
(* a full batch and a rest.                                                *)
C28_Witness ==
    /\ pc = "download_all"
    /\ args.resume
    /\ args.limit = Some(BATCH_SIZE + 10)
    /\ Len(Wanted) > BATCH_SIZE + 10
    /\ Complete(args.conn.download_log, 3)
    /\ Len(locals.batches) = 2
    /\ Len(locals.batches[2]) = 10

LeapYear(y) == y \in {2024, 2028}

DaysBefore == <<0, 31, 59, 90, 120, 151, 181, 212, 243, 273, 304, 334>>

(* the number of the day d, counted from the last day of 2022 *)
DayNumber(d) ==
    365 * (d[1] - 2023) + Cardinality({y \in 2023..(d[1] - 1) : LeapYear(y)})
    + DaysBefore[d[2]] + (IF LeapYear(d[1]) /\ d[2] > 2 THEN 1 ELSE 0) + d[3]

StoredDays(t) == {DayNumber(p[2]) : p \in {q \in args.conn.daily_prices : q[1] = t}}

BatchCalls(t) == {c \in DOMAIN locals.calls : t \in Members(locals.calls[c].tickers)}

Requests(t) == {r \in DOMAIN locals.requests : t \in Members(locals.requests[r].tickers)}

Total(s) == SumSeq(s, 1, Len(s))

(* C29: run_daily_update handles every ticker of the tickers table by      *)
(* exactly one of two paths: a ticker without a stored price row goes to   *)
(* download_batch with period 'max' and is never requested incrementally;  *)
(* a ticker with stored prices is requested with start the day after its   *)
(* latest stored price date and never goes to download_batch; the          *)
(* returned prices_updated and new_rows are the sums over both paths.      *)
C29_UpdatePaths ==
    pc = "run_daily_update" /\ args.listing # None =>
       LET calls == locals.calls
           requests == locals.requests
       IN /\ \A t \in DOMAIN locals.synced.tickers :
                IF StoredDays(t) = {}
                THEN /\ Cardinality(BatchCalls(t)) = 1
                     /\ \A c \in BatchCalls(t) : calls[c].period = "max"
                     /\ Requests(t) = {}
                ELSE /\ Cardinality(Requests(t)) = 1
                     /\ \A r \in Requests(t) :
                           \A day \in StoredDays(t) :
                              DayNumber(requests[r].start) > day
                     /\ \A r \in Requests(t) :
                           DayNumber(requests[r].start) - 1 \in StoredDays(t)
                     /\ BatchCalls(t) = {}
          /\ \A c \in DOMAIN calls : Members(calls[c].tickers) \subseteq DOMAIN locals.synced.tickers
          /\ \A r \in DOMAIN requests :
                Members(requests[r].tickers) \subseteq DOMAIN locals.synced.tickers
          /\ ret.prices_updated =
                Total(SubSeq([c \in DOMAIN calls |-> calls[c].stats.downloaded], 1, Len(calls)))
                + Total(SubSeq([r \in DOMAIN requests |-> requests[r].updated], 1, Len(requests)))
          /\ ret.new_rows =
                Total(SubSeq([c \in DOMAIN calls |-> calls[c].stats.rows], 1, Len(calls)))
                + Total(SubSeq([r \in DOMAIN requests |-> requests[r].rows], 1, Len(requests)))

(* A table with a new ticker and a ticker whose prices end on 28 February  *)
(* of a leap year: the first goes to download_batch, the second is         *)
(* requested from 29 February, and both add to the totals.                 *)
C29_Witness ==
    /\ pc = "run_daily_update"
    /\ args.listing # None
    /\ \E c \in DOMAIN locals.calls : locals.calls[c].stats.downloaded >= 1
    /\ \E r \in DOMAIN locals.requests :
          /\ locals.requests[r].start = <<2024, 2, 29>>
          /\ locals.requests[r].updated = 1
    /\ ret.prices_updated >= 2

Written(log, t) == t \in DOMAIN log /\ log[t].last_download = "now"

(* C30: on every return of download_batch, downloaded + failed is the      *)
(* number of tickers of the batch, every ticker of a non-empty batch has   *)
(* had its download_log row written with status 'complete', 'failed' or    *)
(* 'no_data', and 'complete' is the status of exactly the tickers counted  *)
(* as downloaded.                                                          *)
C30_BatchAccounting ==
    /\ pc = "download_batch" =>
          LET log == locals.conn.download_log
              batch == args.tickers
          IN /\ ret.downloaded + ret.failed = Len(batch)
             /\ \A t \in Members(batch) :
                   /\ Written(log, t)
                   /\ log[t].status \in {"complete", "failed", "no_data"}
             /\ Cardinality({i \in DOMAIN batch : log[batch[i]].status = "complete"})
                   = ret.downloaded
    /\ pc = "run_daily_update" /\ args.listing # None =>
          \A c \in DOMAIN locals.calls :
             locals.calls[c].stats.downloaded + locals.calls[c].stats.failed
                = Len(locals.calls[c].tickers)
    /\ pc = "download_all" =>
          ret.downloaded + ret.failed = Len(Flatten(locals.batches))

(* A batch of three whose data lack one ticker, fail for another and hold  *)
(* rows for the third.                                                     *)
C30_Witness ==
    /\ pc = "download_batch"
    /\ Len(args.tickers) = 3
    /\ args.world.kind.max = "data"
    /\ \E t \in Members(args.tickers) : args.world.per[t].kind = "absent"
    /\ \E t \in Members(args.tickers) : args.world.per[t].kind = "error"
    /\ ret.downloaded = 1
    /\ ret.failed = 2

============================================================================
